---- MODULE Spec2Model ----
(***************************************************************************)
(* Model of the hue-cache in-memory cache engine (backends/memory.go),     *)
(* its entries (entry.go) and statistics collector (stats.go), the file    *)
(* backend with its snapshots (backends/file.go) and the sync engine       *)
(* (sync.go).                                                              *)
(*                                                                         *)
(* A Go string is a sequence of one-character strings, a []byte a sequence *)
(* of small integers, a time.Time a natural number (0 is the zero time),   *)
(* a time.Duration an integer.  The sync.Map is a function whose domain is *)
(* the set of stored keys; the order in which sync.Map.Range visits the    *)
(* keys is not specified by Go, so every operation that ranges takes the   *)
(* order as an input.                                                      *)
(***************************************************************************)
EXTENDS Integers, Sequences, FiniteSets, TLC

\* ------------------------------------------------------------------ bounds
MaxTime == 3
MaxStat == 2

\* ------------------------------------------------------- Go values, inputs
ZeroTime == 0
EmptyString == <<>>
ByteSlices == {<<>>, <<7, 7>>}
\* a []byte argument: nil, or a (possibly empty) slice
NilSlice == [isNil |-> TRUE, bytes |-> <<>>]
ValueArgs == {NilSlice} \cup {[isNil |-> FALSE, bytes |-> b] : b \in ByteSlices}
TTLArgs == {0, 1}
StoreKeys == {<<"a">>, <<"a", "b">>}
KeyArgs == StoreKeys \cup {EmptyString}
\* the arguments of Set: every valid combination, one call with an empty key
\* and one with a nil value
SetArgs ==
  {<<k, [isNil |-> FALSE, bytes |-> b], ttl>> :
     k \in StoreKeys, b \in ByteSlices, ttl \in TTLArgs}
    \cup {<<EmptyString, [isNil |-> FALSE, bytes |-> <<>>], 0>>, <<<<"a">>, NilSlice, 0>>}
PatternArgs == {<<"*">>, <<"a", "*">>, <<"*", "a">>, <<"*", "b">>, <<"a", "b">>,
                <<"a">>, <<"*", "*">>, EmptyString}
\* the orders in which sync.Map.Range may visit the keys
Orders(K) == {o \in [1..Cardinality(K) -> K] : \A i, j \in DOMAIN o : i # j => o[i] # o[j]}
RangeOrders == Orders(StoreKeys)

\* errors.go: the sentinel errors; NilErr is a nil error
NilErr == "nil"
ErrNotFound == "cache: key not found"
ErrExpired == "cache: entry expired"
ErrInvalidKey == "cache: invalid key"
ErrInvalidValue == "cache: invalid value"
ErrBackendClosed == "cache: backend closed"
ErrMemoryLimit == "cache: memory limit exceeded"

\* backends/memory.go: EvictionPolicy
EvictionLRU == "LRU"
EvictionLFU == "LFU"
EvictionFIFO == "FIFO"

VARIABLES m, now, loop, inserted, f, disk, se, fed, g
vars == <<m, now, loop, inserted, f, disk, se, fed, g>>

\* ---------------------------------------------------------------- entry.go
NewEntry(key, value, ttl, t) ==
  [Key |-> key, Value |-> value, CreatedAt |-> t, UpdatedAt |-> t,
   ExpiresAt |-> IF ttl > 0 THEN t + ttl ELSE ZeroTime,
   TTL |-> ttl, Hits |-> 0, Size |-> Len(value)]

\* IsExpired without its zero-time test
IsExpired_NoZeroCheck(e, t) == t > e.ExpiresAt

IsExpired(e, t) ==
  IF e.ExpiresAt = ZeroTime THEN FALSE ELSE t > e.ExpiresAt

Clone(e) ==
  [Key |-> e.Key, Value |-> [i \in 1..Len(e.Value) |-> e.Value[i]],
   CreatedAt |-> e.CreatedAt, UpdatedAt |-> e.UpdatedAt,
   ExpiresAt |-> e.ExpiresAt, TTL |-> e.TTL, Hits |-> e.Hits, Size |-> e.Size]

\* a nil *Entry
NilEntry == [Key |-> EmptyString, Value |-> <<>>, CreatedAt |-> ZeroTime,
             UpdatedAt |-> ZeroTime, ExpiresAt |-> ZeroTime, TTL |-> 0,
             Hits |-> -1, Size |-> -1]

\* ---------------------------------------------------------------- stats.go
NewStatsCollector ==
  [hits |-> 0, misses |-> 0, evictions |-> 0, entries |-> 0, size |-> 0,
   errors |-> 0, lastError |-> ""]

RecordHit(sc) == [sc EXCEPT !.hits = @ + 1]
RecordMiss(sc) == [sc EXCEPT !.misses = @ + 1]
RecordEviction(sc) == [sc EXCEPT !.evictions = @ + 1]
SetEntries(sc, count) == [sc EXCEPT !.entries = count]
SetSize(sc, size) == [sc EXCEPT !.size = size]

\* StatsCollector.Stats: the snapshot handed to the caller
CollectorStats(sc) ==
  [Hits |-> sc.hits, Misses |-> sc.misses, Evictions |-> sc.evictions,
   Entries |-> sc.entries, Size |-> sc.size, Errors |-> sc.errors,
   LastError |-> sc.lastError]

NilStats == [Hits |-> -1, Misses |-> -1, Evictions |-> -1, Entries |-> -1,
             Size |-> -1, Errors |-> -1, LastError |-> ""]

\* ------------------------------------------------------ sync.Map operations
MapStore(data, key, e) ==
  [k \in DOMAIN data \cup {key} |-> IF k = key THEN e ELSE data[k]]
MapDelete(data, key) == [k \in DOMAIN data \ {key} |-> data[k]]
EmptyMap == [k \in {} |-> NilEntry]
\* the keys sync.Map.Range visits, in the order it visits them
Range(data, order) ==
  LET Stored(k) == k \in DOMAIN data IN SelectSeq(order, Stored)

\* ------------------------------------------------------- backends/memory.go
DefaultMemoryConfig ==
  [MaxMemory |-> 0, MaxEntries |-> 0, CleanupInterval |-> 1,
   EvictionPolicy |-> EvictionLRU]

NewMemory(cfg) ==
  [data |-> EmptyMap, stats |-> NewStatsCollector, config |-> cfg,
   cleanupTicker |-> IF cfg.CleanupInterval > 0 THEN "running" ELSE "nil",
   tickerC |-> 0, cleanupDone |-> "open",
   totalSize |-> 0, entryCount |-> 0, closed |-> FALSE]

updateSize(mem, delta) ==
  LET total == mem.totalSize + delta
      count == IF delta > 0 THEN mem.entryCount + 1
               ELSE IF delta < 0 THEN mem.entryCount - 1
               ELSE mem.entryCount
  IN [mem EXCEPT !.totalSize = total, !.entryCount = count,
                 !.stats = SetEntries(SetSize(@, total), count)]

\* strings.HasPrefix, HasSuffix, TrimPrefix, TrimSuffix
HasPrefix(s, p) == Len(p) <= Len(s) /\ SubSeq(s, 1, Len(p)) = p
HasSuffix(s, x) == Len(x) <= Len(s) /\ SubSeq(s, Len(s) - Len(x) + 1, Len(s)) = x
TrimPrefix(s, p) == IF HasPrefix(s, p) THEN SubSeq(s, Len(p) + 1, Len(s)) ELSE s
TrimSuffix(s, x) == IF HasSuffix(s, x) THEN SubSeq(s, 1, Len(s) - Len(x)) ELSE s

matchPattern(key, pattern) ==
  IF pattern = <<"*">> THEN TRUE
  ELSE IF HasSuffix(pattern, <<"*">>)
       THEN HasPrefix(key, TrimSuffix(pattern, <<"*">>))
  ELSE IF HasPrefix(pattern, <<"*">>)
       THEN HasSuffix(key, TrimPrefix(pattern, <<"*">>))
  ELSE key = pattern


\* evictOne's scans: the closure passed to Range, folded over the visited keys
RECURSIVE scanLRU(_, _, _, _)
scanLRU(data, keys, oldestTime, evictKey) ==
  IF keys = <<>> THEN evictKey
  ELSE LET entry == data[Head(keys)] IN
       IF oldestTime = ZeroTime \/ entry.UpdatedAt < oldestTime
       THEN scanLRU(data, Tail(keys), entry.UpdatedAt, Head(keys))
       ELSE scanLRU(data, Tail(keys), oldestTime, evictKey)

RECURSIVE scanLFU(_, _, _, _)
scanLFU(data, keys, lowestHits, evictKey) ==
  IF keys = <<>> THEN evictKey
  ELSE LET entry == data[Head(keys)] IN
       IF lowestHits = -1 \/ entry.Hits < lowestHits
       THEN scanLFU(data, Tail(keys), entry.Hits, Head(keys))
       ELSE scanLFU(data, Tail(keys), lowestHits, evictKey)

RECURSIVE scanFIFO(_, _, _, _)
scanFIFO(data, keys, oldestTime, evictKey) ==
  IF keys = <<>> THEN evictKey
  ELSE LET entry == data[Head(keys)] IN
       IF oldestTime = ZeroTime \/ entry.CreatedAt < oldestTime
       THEN scanFIFO(data, Tail(keys), entry.CreatedAt, Head(keys))
       ELSE scanFIFO(data, Tail(keys), oldestTime, evictKey)

\* the key the configured policy selects ("" when nothing is stored)
Victim(mem, order) ==
  LET keys == Range(mem.data, order) IN
  CASE mem.config.EvictionPolicy = EvictionLRU ->
         scanLRU(mem.data, keys, ZeroTime, EmptyString)
    [] mem.config.EvictionPolicy = EvictionLFU ->
         scanLFU(mem.data, keys, -1, EmptyString)
    [] mem.config.EvictionPolicy = EvictionFIFO ->
         scanFIFO(mem.data, keys, ZeroTime, EmptyString)
    [] OTHER -> EmptyString

evictOne(mem, order) ==
  LET evictKey == Victim(mem, order) IN
  IF evictKey = EmptyString THEN [m |-> mem, err |-> ErrMemoryLimit]
  ELSE [m |-> [mem EXCEPT !.data = MapDelete(@, evictKey),
                          !.totalSize = @ - mem.data[evictKey].Size,
                          !.entryCount = @ - 1,
                          !.stats = RecordEviction(@)],
        err |-> NilErr]

\* makeRoom's loop over the memory limit
RECURSIVE makeRoomMemory(_, _, _)
makeRoomMemory(mem, newSize, order) ==
  IF mem.totalSize + newSize > mem.config.MaxMemory
  THEN LET r == evictOne(mem, order) IN
       IF r.err # NilErr THEN r ELSE makeRoomMemory(r.m, newSize, order)
  ELSE [m |-> mem, err |-> NilErr]

makeRoom(mem, newSize, order) ==
  LET r == IF mem.config.MaxEntries > 0 /\ mem.entryCount >= mem.config.MaxEntries
           THEN evictOne(mem, order)
           ELSE [m |-> mem, err |-> NilErr]
  IN IF r.err # NilErr THEN r
     ELSE IF mem.config.MaxMemory > 0 THEN makeRoomMemory(r.m, newSize, order)
     ELSE r

\* Get that removes an expired entry without counting the eviction
Get_NoEviction(mem, key, t) ==
  IF mem.closed THEN [m |-> mem, entry |-> NilEntry, err |-> ErrBackendClosed]
  ELSE IF key = EmptyString
  THEN [m |-> mem, entry |-> NilEntry, err |-> ErrInvalidKey]
  ELSE IF key \notin DOMAIN mem.data
  THEN [m |-> [mem EXCEPT !.stats = RecordMiss(@)], entry |-> NilEntry,
        err |-> ErrNotFound]
  ELSE LET entry == mem.data[key] IN
       IF IsExpired(entry, t)
       THEN LET m1 == [mem EXCEPT !.stats = RecordMiss(@)]
                m2 == [m1 EXCEPT !.data = MapDelete(@, key)]
                m3 == updateSize(m2, -entry.Size)
            IN [m |-> m3, entry |-> NilEntry, err |-> ErrExpired]
       ELSE LET touched == [entry EXCEPT !.Hits = @ + 1, !.UpdatedAt = t]
                m1 == [mem EXCEPT !.data[key] = touched]
                m2 == [m1 EXCEPT !.stats = RecordHit(@)]
            IN [m |-> m2, entry |-> Clone(touched), err |-> NilErr]

Get(mem, key, t) ==
  IF mem.closed THEN [m |-> mem, entry |-> NilEntry, err |-> ErrBackendClosed]
  ELSE IF key = EmptyString
  THEN [m |-> mem, entry |-> NilEntry, err |-> ErrInvalidKey]
  ELSE IF key \notin DOMAIN mem.data
  THEN [m |-> [mem EXCEPT !.stats = RecordMiss(@)], entry |-> NilEntry,
        err |-> ErrNotFound]
  ELSE LET entry == mem.data[key] IN
       IF IsExpired(entry, t)
       THEN LET m1 == [mem EXCEPT !.stats = RecordMiss(@)]
                m2 == [m1 EXCEPT !.data = MapDelete(@, key)]
                m3 == updateSize(m2, -entry.Size)
                m4 == [m3 EXCEPT !.stats = RecordEviction(@)]
            IN [m |-> m4, entry |-> NilEntry, err |-> ErrExpired]
       ELSE LET touched == [entry EXCEPT !.Hits = @ + 1, !.UpdatedAt = t]
                m1 == [mem EXCEPT !.data[key] = touched]
                m2 == [m1 EXCEPT !.stats = RecordHit(@)]
            IN [m |-> m2, entry |-> Clone(touched), err |-> NilErr]

Set(mem, key, value, ttl, t, order) ==
  IF mem.closed THEN [m |-> mem, err |-> ErrBackendClosed]
  ELSE IF key = EmptyString THEN [m |-> mem, err |-> ErrInvalidKey]
  ELSE IF value.isNil THEN [m |-> mem, err |-> ErrInvalidValue]
  ELSE LET entry == NewEntry(key, value.bytes, ttl, t)
           r == makeRoom(mem, entry.Size, order)
       IN IF r.err # NilErr THEN [m |-> r.m, err |-> r.err]
          ELSE LET m1 == IF key \in DOMAIN r.m.data
                         THEN updateSize(r.m, -r.m.data[key].Size)
                         ELSE r.m
                   m2 == [m1 EXCEPT !.data = MapStore(@, key, entry)]
                   m3 == updateSize(m2, entry.Size)
               IN [m |-> m3, err |-> NilErr]

\* Delete that reports an absent key
Delete_NotFound(mem, key) ==
  IF mem.closed THEN [m |-> mem, err |-> ErrBackendClosed]
  ELSE IF key \in DOMAIN mem.data
  THEN LET entry == mem.data[key]
           m1 == [mem EXCEPT !.data = MapDelete(@, key)]
       IN [m |-> updateSize(m1, -entry.Size), err |-> NilErr]
  ELSE [m |-> mem, err |-> ErrNotFound]

\* Delete without its closed test
Delete_NoClosedCheck(mem, key) ==
  IF key \in DOMAIN mem.data
  THEN LET entry == mem.data[key]
           m1 == [mem EXCEPT !.data = MapDelete(@, key)]
       IN [m |-> updateSize(m1, -entry.Size), err |-> NilErr]
  ELSE [m |-> mem, err |-> NilErr]

Delete(mem, key) ==
  IF mem.closed THEN [m |-> mem, err |-> ErrBackendClosed]
  ELSE IF key \in DOMAIN mem.data
  THEN LET entry == mem.data[key]
           m1 == [mem EXCEPT !.data = MapDelete(@, key)]
       IN [m |-> updateSize(m1, -entry.Size), err |-> NilErr]
  ELSE [m |-> mem, err |-> NilErr]

\* Clear that resets the whole collector
Clear_ResetsStats(mem) ==
  IF mem.closed THEN [m |-> mem, err |-> ErrBackendClosed]
  ELSE [m |-> [mem EXCEPT !.data = EmptyMap, !.totalSize = 0, !.entryCount = 0,
                          !.stats = NewStatsCollector],
        err |-> NilErr]

Clear(mem) ==
  IF mem.closed THEN [m |-> mem, err |-> ErrBackendClosed]
  ELSE [m |-> [mem EXCEPT !.data = EmptyMap, !.totalSize = 0, !.entryCount = 0,
                          !.stats = SetEntries(SetSize(@, 0), 0)],
        err |-> NilErr]

\* Keys without its expiry test
Keys_WithExpired(mem, pattern, t, order) ==
  IF mem.closed THEN [keys |-> <<>>, err |-> ErrBackendClosed]
  ELSE LET Wanted(k) == matchPattern(k, pattern)
       IN [keys |-> SelectSeq(Range(mem.data, order), Wanted), err |-> NilErr]

Keys(mem, pattern, t, order) ==
  IF mem.closed THEN [keys |-> <<>>, err |-> ErrBackendClosed]
  ELSE LET Wanted(k) == matchPattern(k, pattern) /\ ~IsExpired(mem.data[k], t)
       IN [keys |-> SelectSeq(Range(mem.data, order), Wanted), err |-> NilErr]

Stats(mem) ==
  IF mem.closed THEN [stats |-> NilStats, err |-> ErrBackendClosed]
  ELSE [stats |-> [CollectorStats(mem.stats) EXCEPT !.Entries = mem.entryCount,
                                                     !.Size = mem.totalSize],
        err |-> NilErr]

Close(mem) ==
  IF mem.closed THEN [m |-> mem, err |-> NilErr]
  ELSE LET m1 == [mem EXCEPT !.closed = TRUE]
           m2 == IF m1.cleanupTicker # "nil"
                 THEN [m1 EXCEPT !.cleanupTicker = "stopped", !.cleanupDone = "closed"]
                 ELSE m1
       IN [m |-> Clear(m2).m, err |-> NilErr]

\* cleanupExpired's second loop, over the keys collected by the first
RECURSIVE deleteExpired(_, _)
deleteExpired(mem, toDelete) ==
  IF toDelete = <<>> THEN mem
  ELSE LET key == Head(toDelete) IN
       IF key \in DOMAIN mem.data
       THEN LET entry == mem.data[key]
                m1 == [mem EXCEPT !.data = MapDelete(@, key)]
                m2 == updateSize(m1, -entry.Size)
                m3 == [m2 EXCEPT !.stats = RecordEviction(@)]
            IN deleteExpired(m3, Tail(toDelete))
       ELSE deleteExpired(mem, Tail(toDelete))

\* cleanupExpired that stops after the first expired key
cleanupExpired_FirstOnly(mem, t, order) ==
  LET Expired(k) == IsExpired(mem.data[k], t)
      toDelete == SelectSeq(Range(mem.data, order), Expired)
  IN deleteExpired(mem, IF toDelete = <<>> THEN <<>> ELSE <<Head(toDelete)>>)

cleanupExpired(mem, t, order) ==
  LET Expired(k) == IsExpired(mem.data[k], t)
      toDelete == SelectSeq(Range(mem.data, order), Expired)
  IN deleteExpired(mem, toDelete)

\* ----------------------------------------------------- the file system
\* a file that does not exist
NoFile == [exists |-> FALSE, entries |-> <<>>, complete |-> FALSE, synced |-> FALSE]
\* the cache directory: the snapshot at filePath and the file at filePath + ".tmp"
EmptyDisk == [snapshot |-> NoFile, tmp |-> NoFile]
\* no File backend has been constructed
NilFile == [alive |-> FALSE]
\* no sync engine has been constructed; nothing has been fed to one
NilSync == [alive |-> FALSE]
NoEvents == [length |-> 0, adds |-> 0, updates |-> 0, deletes |-> 0,
             last |-> <<>>, plain |-> TRUE]
\* no goroutine of a caller is inside an operation
NoGoroutines == <<>>

\* ------------------------------------------------------------ state machine
\* the configurations the engine is constructed with
Configs ==
  {DefaultMemoryConfig,
   [MaxMemory |-> 3, MaxEntries |-> 1, CleanupInterval |-> 0,
    EvictionPolicy |-> EvictionLFU]}

\* the cumulative counters stay within the model's bound
Bounded(mem) ==
  mem.stats.hits + mem.stats.misses + mem.stats.evictions <= MaxStat

Init ==
  /\ \E cfg \in Configs :
       /\ m = NewMemory(cfg)
       /\ loop = IF cfg.CleanupInterval > 0 THEN "running" ELSE "none"
  /\ now = 1
  /\ inserted = <<>>
  /\ f = NilFile
  /\ disk = EmptyDisk
  /\ se = NilSync
  /\ fed = NoEvents
  /\ g = NoGoroutines

\* the clock advances
Tick ==
  /\ now < MaxTime
  /\ now' = now + 1
  /\ UNCHANGED <<m, loop, inserted, f, disk, se, fed, g>>

CallGet(key) ==
  LET r == Get(m, key, now) IN
  /\ Bounded(r.m)
  /\ m' = r.m
  /\ UNCHANGED <<now, loop, inserted, f, disk, se, fed, g>>

CallSet(key, value, ttl, order) ==
  LET r == Set(m, key, value, ttl, now, order) IN
  /\ Bounded(r.m)
  /\ m' = r.m
  /\ UNCHANGED <<now, loop, inserted, f, disk, se, fed, g>>

CallDelete(key) ==
  LET r == Delete(m, key) IN
  /\ m' = r.m
  /\ UNCHANGED <<now, loop, inserted, f, disk, se, fed, g>>

CallClear ==
  LET r == Clear(m) IN
  /\ m' = r.m
  /\ UNCHANGED <<now, loop, inserted, f, disk, se, fed, g>>

CallKeys(pattern) ==
  /\ \A order \in RangeOrders :
       Keys(m, pattern, now, order).err \in {NilErr, ErrBackendClosed}
  /\ UNCHANGED <<m, now, loop, inserted, f, disk, se, fed, g>>

CallStats ==
  LET r == Stats(m) IN
  /\ r.err \in {NilErr, ErrBackendClosed}
  /\ UNCHANGED <<m, now, loop, inserted, f, disk, se, fed, g>>

CallClose ==
  LET r == Close(m) IN
  /\ m' = r.m
  /\ UNCHANGED <<now, loop, inserted, f, disk, se, fed, g>>

\* the cleanup ticker delivers a tick into its one-slot channel
TickerFire ==
  /\ m.cleanupTicker = "running"
  /\ m.tickerC = 0
  /\ m' = [m EXCEPT !.tickerC = 1]
  /\ UNCHANGED <<now, loop, inserted, f, disk, se, fed, g>>

\* cleanupLoop: case <-m.cleanupTicker.C
CleanupLoopTick(order) ==
  /\ loop = "running"
  /\ m.tickerC = 1
  /\ LET swept == cleanupExpired([m EXCEPT !.tickerC = 0], now, order) IN
       /\ Bounded(swept)
       /\ m' = swept
  /\ UNCHANGED <<now, loop, inserted, f, disk, se, fed, g>>

\* cleanupLoop: case <-m.cleanupDone
CleanupLoopDone ==
  /\ loop = "running"
  /\ m.cleanupDone = "closed"
  /\ loop' = "exited"
  /\ UNCHANGED <<m, now, inserted, f, disk, se, fed, g>>

Next ==
  \/ Tick
  \/ \E key \in KeyArgs : CallGet(key)
  \/ \E args \in SetArgs, order \in RangeOrders :
       CallSet(args[1], args[2], args[3], order)
  \/ \E key \in KeyArgs : CallDelete(key)
  \/ CallClear
  \/ \E pattern \in PatternArgs : CallKeys(pattern)
  \/ CallStats
  \/ CallClose
  \/ TickerFire
  \/ \E order \in RangeOrders : CleanupLoopTick(order)
  \/ CleanupLoopDone

Spec == Init /\ [][Next]_vars

\* ----------------------------------------- the insertion scenario (FIFO test)
\* TestMemory_EvictionFIFO: distinct keys are inserted one after another into
\* an engine limited to MaxEntries entries, the clock advancing between them
FIFOConfig ==
  [MaxMemory |-> 0, MaxEntries |-> 2, CleanupInterval |-> 0,
   EvictionPolicy |-> EvictionFIFO]
FIFOKeys == {<<"a">>, <<"a", "b">>, <<"b", "a">>}
FIFOValues == {<<>>, <<7>>, <<7, 7>>}

InitFIFO ==
  /\ m = NewMemory(FIFOConfig)
  /\ loop = "none"
  /\ now = 1
  /\ inserted = <<>>
  /\ f = NilFile
  /\ disk = EmptyDisk
  /\ se = NilSync
  /\ fed = NoEvents
  /\ g = NoGoroutines

Insert(key, value, order) ==
  LET r == Set(m, key, [isNil |-> FALSE, bytes |-> value], 0, now, order) IN
  /\ Len(inserted) <= FIFOConfig.MaxEntries
  /\ \A i \in DOMAIN inserted : inserted[i] # key
  /\ \A k \in DOMAIN m.data : m.data[k].CreatedAt < now
  /\ r.err = NilErr
  /\ m' = r.m
  /\ inserted' = Append(inserted, key)
  /\ UNCHANGED <<now, loop, f, disk, se, fed, g>>

NextFIFO ==
  \/ Tick
  \/ \E key \in FIFOKeys, value \in FIFOValues, order \in Orders(FIFOKeys) :
       Insert(key, value, order)

SpecFIFO == InitFIFO /\ [][NextFIFO]_vars

\* ------------------------------------------------------------------- claims
\* what is physically stored
RECURSIVE SumOfLengths(_, _)
SumOfLengths(data, keys) ==
  IF keys = {} THEN 0
  ELSE LET k == CHOOSE x \in keys : TRUE
       IN Len(data[k].Value) + SumOfLengths(data, keys \ {k})
StoredCount == Cardinality(DOMAIN m.data)
StoredBytes == SumOfLengths(m.data, DOMAIN m.data)

\* C1: on an open engine the entry_count reported by Stats equals the number
\* of entries physically stored and total_size_bytes equals the sum of the
\* stored values' lengths, after any sequence of operations.
C1_GaugesExact ==
  ~m.closed =>
    /\ Stats(m).stats.Entries = StoredCount
    /\ Stats(m).stats.Size = StoredBytes

\* C2: with max_entries = N > 0 the number of stored entries is at most N, and
\* with max_memory = M > 0 the sum of the stored values' lengths is at most M
\* (every other operation only removes entries, so the bound after every
\* successful Set is a bound in every state).
C2_WithinBounds ==
  /\ m.config.MaxEntries > 0 => StoredCount <= m.config.MaxEntries
  /\ m.config.MaxMemory > 0 => StoredBytes <= m.config.MaxMemory

\* C10: with max_entries = N and the FIFO policy, once N+1 distinct keys have
\* been inserted one after another exactly the first-inserted key has been
\* evicted: the other N keys are stored and readable, the entry count is N and
\* the eviction counter is 1.
C10_FIFOEvictsFirst ==
  Len(inserted) = FIFOConfig.MaxEntries + 1 =>
    /\ DOMAIN m.data = {inserted[i] : i \in 2..Len(inserted)}
    /\ \A i \in 2..Len(inserted) : Get(m, inserted[i], now).err = NilErr
    /\ Stats(m).stats.Entries = FIFOConfig.MaxEntries
    /\ Stats(m).stats.Evictions = 1

\* the elements of a sequence
Elements(seq) == {seq[i] : i \in DOMAIN seq}
\* neither capacity bound is configured
Unbounded == m.config.MaxEntries = 0 /\ m.config.MaxMemory = 0

\* C3: a Get of a key whose stored entry is expired (the clock is past its
\* expiry time) returns the 'expired' error and no entry, removes the entry,
\* adds one to the eviction counter and one to the miss counter, and leaves
\* the hit counter alone.
C3_LogicallyExpired(k) ==
  /\ k \in DOMAIN m.data
  /\ m.data[k].ExpiresAt # ZeroTime
  /\ now > m.data[k].ExpiresAt
C4_NoExpiry(k) == k \in DOMAIN m.data /\ m.data[k].TTL = 0
C4_GetReturns ==
  \A k \in StoreKeys :
    (~m.closed /\ Unbounded /\ C4_NoExpiry(k)) =>
      LET r == Get(m, k, now) IN
        /\ r.err = NilErr
        /\ r.entry.Value = m.data[k].Value
        /\ r.entry.ExpiresAt = ZeroTime
C4_Removes(k) ==
  \/ \E value \in ValueArgs, ttl \in TTLArgs, order \in RangeOrders :
       m' = Set(m, k, value, ttl, now, order).m
  \/ m' = Delete(m, k).m
  \/ m' = Clear(m).m
  \/ m'.closed
C4_Kept(k) ==
  /\ k \in DOMAIN m'.data
  /\ m'.data[k].Value = m.data[k].Value
  /\ m'.data[k].ExpiresAt = ZeroTime
C4_Persists ==
  \A k \in StoreKeys :
    (~m.closed /\ Unbounded /\ C4_NoExpiry(k)) => (C4_Kept(k) \/ C4_Removes(k))
\* C4 (formula): in every state get(k) returns the no-expiry entry's value, and
\* every step that does not overwrite, delete or clear k keeps the entry.
C4_NoExpiryEntryStays == [](C4_GetReturns) /\ [][C4_Persists]_vars
\* an entry without expiry, written earlier, has been read and has outlived
\* the expiry of another entry
C4_Witness ==
  /\ ~m.closed /\ Unbounded
  /\ \E k \in StoreKeys :
       /\ C4_NoExpiry(k)
       /\ m.data[k].CreatedAt < now
       /\ m.data[k].Hits > 0
       /\ m.stats.evictions > 0

\* C5: an entry written by set(k, v, ttl) with ttl > 0 expires at its creation
\* time plus ttl: before that time get(k) succeeds; beyond it get(k) fails
\* with expired or not-found and leaves k purged, keys("*") does not list k
\* (before or after the purge), and one run of the sweep purges k as well.
C5_HasExpiry(k) == k \in DOMAIN m.data /\ m.data[k].TTL > 0
C5_Purged(mem, k) ==
  /\ k \notin DOMAIN mem.data
  /\ Get(mem, k, now).err = ErrNotFound
  /\ \A order \in RangeOrders : k \notin Elements(Keys(mem, <<"*">>, now, order).keys)
\* C5 (formula): for every stored entry with ttl > 0, get succeeds up to the
\* expiry time and beyond it the lazy Get and the sweep both purge the key.
C5_TTLExpiry ==
  \A k \in StoreKeys :
    (~m.closed /\ C5_HasExpiry(k)) =>
      LET expiry == m.data[k].CreatedAt + m.data[k].TTL IN
        /\ m.data[k].ExpiresAt = expiry
        /\ now < expiry => Get(m, k, now).err = NilErr
        /\ now > expiry =>
             /\ Get(m, k, now).err \in {ErrExpired, ErrNotFound}
             /\ C5_Purged(Get(m, k, now).m, k)
             /\ \A order \in RangeOrders :
                  /\ k \notin Elements(Keys(m, <<"*">>, now, order).keys)
                  /\ C5_Purged(cleanupExpired(m, now, order), k)
\* two entries are past their expiry time while a tick of the sweeper is pending
C5_Witness ==
  /\ ~m.closed
  /\ m.tickerC = 1
  /\ \A k \in StoreKeys : C5_HasExpiry(k) /\ now > m.data[k].CreatedAt + m.data[k].TTL

\* C6: on an open engine delete(k) returns success whether or not k is
\* stored; when k is absent it changes nothing; applied twice it leaves the
\* state that one application leaves.
C6_DeleteIdempotent ==
  \A k \in KeyArgs :
    ~m.closed =>
      /\ Delete(m, k).err = NilErr
      /\ k \notin DOMAIN m.data => Delete(m, k).m = m
      /\ Delete(Delete(m, k).m, k) = Delete(m, k)
\* one key is stored, another is absent, and the counters have moved
C6_Witness ==
  /\ ~m.closed
  /\ \E k, j \in StoreKeys : k \notin DOMAIN m.data /\ j \in DOMAIN m.data
  /\ m.stats.hits > 0 /\ m.stats.misses > 0

\* C7: after clear() on an open engine keys("*") is empty and the gauges
\* entry_count and total_size_bytes are 0, while the hit, miss, eviction and
\* error counters are what they were before the call.
C7_ClearFrame ==
  ~m.closed =>
    LET r == Clear(m)
        before == Stats(m).stats
        after == Stats(r.m).stats
    IN /\ r.err = NilErr
       /\ \A order \in RangeOrders : Keys(r.m, <<"*">>, now, order).keys = <<>>
       /\ DOMAIN r.m.data = {}
       /\ after.Entries = 0 /\ after.Size = 0
       /\ after.Hits = before.Hits /\ after.Misses = before.Misses
       /\ after.Evictions = before.Evictions /\ after.Errors = before.Errors
\* entries are stored and the hit and miss counters have moved
C7_Witness ==
  /\ ~m.closed
  /\ StoredCount = Cardinality(StoreKeys) /\ StoredBytes > 0
  /\ m.stats.hits > 0 /\ m.stats.misses > 0

\* C8: keys(pattern) returns, each once, exactly the stored keys that are not
\* expired and match the pattern: "*" matches every key, "p*" the keys with
\* prefix p, "*s" the keys with suffix s, any other pattern the key equal to it.
C8_Keys == {<<>>, <<"a">>, <<"b">>, <<"*">>, <<"a", "b">>, <<"b", "a">>}
C8_Matches(key, pattern) ==
  IF pattern = <<"*">> THEN TRUE
  ELSE IF Len(pattern) > 0 /\ pattern[Len(pattern)] = "*"
  THEN /\ Len(key) >= Len(pattern) - 1
       /\ \A i \in 1..(Len(pattern) - 1) : key[i] = pattern[i]
  ELSE IF Len(pattern) > 0 /\ pattern[1] = "*"
  THEN /\ Len(key) >= Len(pattern) - 1
       /\ \A i \in 2..Len(pattern) : key[Len(key) - Len(pattern) + i] = pattern[i]
  ELSE key = pattern
C8_NotExpired(k) == m.data[k].ExpiresAt = ZeroTime \/ now <= m.data[k].ExpiresAt
C9_CloseFinal ==
  /\ Close(m).err = NilErr
  /\ Close(m).m.closed
  /\ m.closed =>
       /\ Close(m).m = m
       /\ \A k \in KeyArgs :
            /\ Get(m, k, now) = [m |-> m, entry |-> NilEntry, err |-> ErrBackendClosed]
            /\ Delete(m, k) = [m |-> m, err |-> ErrBackendClosed]
            /\ \A value \in ValueArgs, ttl \in TTLArgs, order \in RangeOrders :
                 Set(m, k, value, ttl, now, order) = [m |-> m, err |-> ErrBackendClosed]
       /\ Clear(m) = [m |-> m, err |-> ErrBackendClosed]
       /\ \A pattern \in PatternArgs, order \in RangeOrders :
            Keys(m, pattern, now, order) = [keys |-> <<>>, err |-> ErrBackendClosed]
       /\ Stats(m) = [stats |-> NilStats, err |-> ErrBackendClosed]
\* the engine was closed while it held entries
C9_Witness == m.closed /\ StoredCount > 0 /\ m.cleanupDone = "closed"

\* ------------------------------------------------- the recency (LRU) scenario
\* TestMemory_EvictionLRU: an entry limit, the LRU policy, distinct keys set
\* one after another with reads in between
LRUConfig ==
  [MaxMemory |-> 0, MaxEntries |-> 2, CleanupInterval |-> 0,
   EvictionPolicy |-> EvictionLRU]

InitLRU ==
  /\ m = NewMemory(LRUConfig)
  /\ loop = "none"
  /\ now = 1
  /\ inserted = <<>>
  /\ f = NilFile
  /\ disk = EmptyDisk
  /\ se = NilSync
  /\ fed = NoEvents
  /\ g = NoGoroutines

InsertLRU(key, value, order) ==
  LET r == Set(m, key, [isNil |-> FALSE, bytes |-> value], 0, now, order) IN
  /\ Len(inserted) <= LRUConfig.MaxEntries
  /\ \A i \in DOMAIN inserted : inserted[i] # key
  /\ r.err = NilErr
  /\ m' = r.m
  /\ inserted' = Append(inserted, key)
  /\ UNCHANGED <<now, loop, f, disk, se, fed, g>>

ReadLRU(key) ==
  LET r == Get(m, key, now) IN
  /\ key \in DOMAIN m.data
  /\ Bounded(r.m)
  /\ m' = r.m
  /\ UNCHANGED <<now, loop, inserted, f, disk, se, fed, g>>

NextLRU ==
  \/ Tick
  \/ \E key \in FIFOKeys, value \in FIFOValues, order \in Orders(FIFOKeys) :
       InsertLRU(key, value, order)
  \/ \E key \in FIFOKeys : ReadLRU(key)

SpecLRU == InitLRU /\ [][NextLRU]_vars

\* the stored keys whose last-used time no other stored entry precedes
C11_Oldest(mem) ==
  {k \in DOMAIN mem.data :
     \A j \in DOMAIN mem.data : mem.data[k].UpdatedAt <= mem.data[j].UpdatedAt}
\* the LRU choice is always an entry with the oldest last-used time
C11_VictimOldest ==
  \A order \in Orders(FIFOKeys) :
    DOMAIN m.data # {} => Victim(m, order) \in C11_Oldest(m)
\* C11: under the LRU policy with max_entries = N, once N distinct keys have
\* been inserted (and read any number of times), setting one more distinct key
\* evicts exactly one entry, an entry with the oldest last-used time, and every
\* entry used more recently than another stored entry remains; the policy's
\* choice is always an entry with the oldest last-used time.
C11_LRUEvictsOldest ==
  /\ C11_VictimOldest
  /\ Len(inserted) = LRUConfig.MaxEntries =>
       \A key \in FIFOKeys \ DOMAIN m.data, value \in FIFOValues,
          order \in Orders(FIFOKeys) :
         LET r == Set(m, key, [isNil |-> FALSE, bytes |-> value], 0, now, order) IN
           /\ r.err = NilErr
           /\ \E victim \in C11_Oldest(m) :
                DOMAIN r.m.data = (DOMAIN m.data \ {victim}) \cup {key}
           /\ r.m.stats.evictions = m.stats.evictions + 1

\* --------------------------------------------------------- backends/file.go
\* encoding/gob: a field holding the zero value of its type is not sent, and
\* the decoder leaves a field that was not sent at its zero value; a []byte of
\* length 0 is such a value and comes back as a nil slice
GobOmitted == [sent |-> FALSE, bytes |-> <<>>]
GobEncodeEntry(e) ==
  [e EXCEPT !.Value = IF Len(e.Value) = 0 THEN GobOmitted
                      ELSE [sent |-> TRUE, bytes |-> e.Value]]
GobDecodeEntry(w) ==
  [w EXCEPT !.Value = IF w.Value.sent THEN [isNil |-> FALSE, bytes |-> w.Value.bytes]
                      ELSE NilSlice]
GobEncode(entries) == [i \in DOMAIN entries |-> GobEncodeEntry(entries[i])]
GobDecode(wire) == [i \in DOMAIN wire |-> GobDecodeEntry(wire[i])]

\* the errors Save and Load wrap
ErrCreateTemp == "creating temp file"
ErrEncode == "encoding cache"
ErrSyncFile == "syncing file"
ErrCloseFile == "closing file"
ErrRename == "renaming file"
ErrDecode == "decoding cache"

\* the memory configuration the file backend is given
FileMemoryConfig ==
  [MaxMemory |-> 0, MaxEntries |-> 0, CleanupInterval |-> 0,
   EvictionPolicy |-> EvictionLRU]

\* NewFile before Load: autoSave is whether AutoSaveInterval > 0
\* save is the Save the caller is in (a call of Save, or Close's final Save),
\* auto the Save the autoSaveLoop goroutine is in: pc is its position and fd
\* where the file it created and holds open is linked now; call is the
\* position of the caller; finalErr is Close's local saveErr, closeErr what
\* Close returned
IdleSave == [pc |-> "idle", by |-> "none", fd |-> "none"]
NewFileStruct(autoSave) ==
  [alive |-> TRUE, closed |-> FALSE,
   saveTicker |-> IF autoSave THEN "running" ELSE "nil", tickerC |-> 0,
   saveStop |-> "open",
   autoSaveLoop |-> IF autoSave THEN "running" ELSE "none",
   save |-> IdleSave, auto |-> IdleSave,
   call |-> "idle", finalErr |-> NilErr, closeErr |-> NilErr]

\* File.Get, Set, Delete, Clear, Keys, Stats: the closed test, then the engine
FileGet(ff, mem, key, t) ==
  IF ff.closed THEN [m |-> mem, entry |-> NilEntry, err |-> ErrBackendClosed]
  ELSE Get(mem, key, t)
\* Set that goes to the engine without the closed test
FileSet_NoClosedTest(ff, mem, key, value, ttl, t, order) ==
  Set(mem, key, value, ttl, t, order)
FileSet(ff, mem, key, value, ttl, t, order) ==
  IF ff.closed THEN [m |-> mem, err |-> ErrBackendClosed]
  ELSE Set(mem, key, value, ttl, t, order)
FileDelete(ff, mem, key) ==
  IF ff.closed THEN [m |-> mem, err |-> ErrBackendClosed] ELSE Delete(mem, key)
FileClear(ff, mem) ==
  IF ff.closed THEN [m |-> mem, err |-> ErrBackendClosed] ELSE Clear(mem)
FileKeys(ff, mem, pattern, t, order) ==
  IF ff.closed THEN [keys |-> <<>>, err |-> ErrBackendClosed]
  ELSE Keys(mem, pattern, t, order)
FileStats(ff, mem) ==
  IF ff.closed THEN [stats |-> NilStats, err |-> ErrBackendClosed] ELSE Stats(mem)

\* Save's loop over the keys: Get each one, skip those that fail
RECURSIVE saveCollect(_, _, _, _)
saveCollect(mem, keys, entries, t) ==
  IF keys = <<>> THEN [m |-> mem, entries |-> entries]
  ELSE LET r == Get(mem, Head(keys), t) IN
       saveCollect(r.m, Tail(keys),
                   IF r.err # NilErr THEN entries ELSE Append(entries, r.entry), t)

\* Load's loop over the decoded entries
RECURSIVE loadEntries(_, _, _, _)
loadEntries(mem, entries, t, order) ==
  IF entries = <<>> THEN mem
  ELSE LET entry == Head(entries) IN
       IF IsExpired([ExpiresAt |-> entry.ExpiresAt], t)
       THEN loadEntries(mem, Tail(entries), t, order)
       ELSE LET ttl == IF entry.ExpiresAt # ZeroTime THEN entry.ExpiresAt - t ELSE 0 IN
            IF ttl < 0 THEN loadEntries(mem, Tail(entries), t, order)
            ELSE loadEntries(Set(mem, entry.Key, entry.Value, ttl, t, order).m,
                             Tail(entries), t, order)

\* File.Load: the closed test, the file's existence, gob decoding, the loop
Load(ff, mem, dsk, t, order) ==
  IF ff.closed THEN [m |-> mem, err |-> ErrBackendClosed]
  ELSE IF ~dsk.snapshot.exists THEN [m |-> mem, err |-> NilErr]
  ELSE IF ~dsk.snapshot.complete THEN [m |-> mem, err |-> ErrDecode]
  ELSE [m |-> loadEntries(mem, GobDecode(dsk.snapshot.entries), t, order),
        err |-> NilErr]

\* Save returns: its caller resumes; Close keeps what its final Save returned
saveReturn(ff, w, err) ==
  LET by == ff[w].by
      f1 == [ff EXCEPT ![w] = IdleSave]
  IN IF by = "close" THEN [f1 EXCEPT !.finalErr = err, !.call = "close_mark"]
     ELSE IF by = "manual" THEN [f1 EXCEPT !.call = "idle"]
     ELSE f1

\* the files the Saves in progress hold open follow the file, not the path
relink(ff, from, to) ==
  [ff EXCEPT !.save.fd = IF @ = from THEN to ELSE @,
             !.auto.fd = IF @ = from THEN to ELSE @]
\* the file a Save holds open, and the disk after a write to it
openFile(dsk, fd) ==
  IF fd = "tmp" THEN dsk.tmp ELSE IF fd = "snapshot" THEN dsk.snapshot ELSE NoFile
writeOpenFile(dsk, fd, file) ==
  IF fd = "tmp" THEN [dsk EXCEPT !.tmp = file]
  ELSE IF fd = "snapshot" THEN [dsk EXCEPT !.snapshot = file]
  ELSE dsk
\* Save's error path: os.Remove(tmpPath), then the error is returned
saveFail(ff, w, dsk, err) ==
  [f |-> saveReturn(relink(ff, "tmp", "unlinked"), w, err),
   disk |-> [dsk EXCEPT !.tmp = NoFile], err |-> err]

\* File.Save up to os.Create: the closed test, then the file at the temporary
\* path is created, or truncated when it is there
saveCreate(ff, w, dsk, by, ok) ==
  LET f1 == [ff EXCEPT ![w] = [pc |-> "idle", by |-> by, fd |-> "none"]] IN
  IF ff.closed
  THEN [f |-> saveReturn(f1, w, ErrBackendClosed), disk |-> dsk, err |-> ErrBackendClosed]
  ELSE IF ~ok
  THEN [f |-> saveReturn(f1, w, ErrCreateTemp), disk |-> dsk, err |-> ErrCreateTemp]
  ELSE [f |-> [f1 EXCEPT ![w].pc = "created", ![w].fd = "tmp"],
        disk |-> [dsk EXCEPT !.tmp = [exists |-> TRUE, entries |-> <<>>,
                                      complete |-> FALSE, synced |-> FALSE]],
        err |-> NilErr]

\* File.Save: Keys("*"), the Get of every key, encoder.Encode into the open
\* file; a failed Encode leaves part of the data in it
saveEncode(ff, w, mem, dsk, t, order, ok) ==
  LET keys == Keys(mem, <<"*">>, t, order).keys
      c == saveCollect(mem, keys, <<>>, t)
      fd == ff[w].fd
      old == openFile(dsk, fd)
  IN IF ok
     THEN [f |-> [ff EXCEPT ![w].pc = "encoded"], m |-> c.m,
           disk |-> writeOpenFile(dsk, fd,
                      [exists |-> TRUE, entries |-> GobEncode(c.entries),
                       complete |-> TRUE, synced |-> FALSE]),
           err |-> NilErr]
     ELSE LET r == saveFail(ff, w,
                     writeOpenFile(dsk, fd, [old EXCEPT !.entries = <<>>,
                                                          !.complete = FALSE,
                                                          !.synced = FALSE]),
                     ErrEncode)
          IN [f |-> r.f, m |-> c.m, disk |-> r.disk, err |-> r.err]

\* File.Save: file.Sync
saveSync(ff, w, dsk, ok) ==
  IF ok THEN [f |-> [ff EXCEPT ![w].pc = "synced"],
              disk |-> writeOpenFile(dsk, ff[w].fd,
                         [openFile(dsk, ff[w].fd) EXCEPT !.synced = TRUE]),
              err |-> NilErr]
  ELSE saveFail(ff, w, dsk, ErrSyncFile)

\* File.Save: file.Close
saveCloseFile(ff, w, dsk, ok) ==
  IF ok THEN [f |-> [ff EXCEPT ![w].pc = "closed", ![w].fd = "none"],
              disk |-> dsk, err |-> NilErr]
  ELSE saveFail(ff, w, dsk, ErrCloseFile)

\* File.Save: os.Rename, which replaces the snapshot in one step with the file
\* at the temporary path, and fails when there is none
saveRename(ff, w, dsk, ok) ==
  IF ok /\ dsk.tmp.exists
  THEN [f |-> saveReturn(relink(relink(ff, "snapshot", "unlinked"),
                                "tmp", "snapshot"), w, NilErr),
        disk |-> [snapshot |-> dsk.tmp, tmp |-> NoFile], err |-> NilErr]
  ELSE saveFail(ff, w, dsk, ErrRename)

\* Close that skips the final Save
closeBegin_NoSave(ff) ==
  IF ff.closed THEN [ff EXCEPT !.call = "idle", !.closeErr = NilErr]
  ELSE LET f1 == IF ff.saveTicker # "nil"
                 THEN [ff EXCEPT !.saveTicker = "stopped", !.saveStop = "closed"]
                 ELSE ff
       IN [f1 EXCEPT !.call = "close_mark", !.finalErr = NilErr]

\* File.Close up to the final Save: the closed test (a closed File returns
\* nil), the ticker and saveStop
closeBegin(ff) ==
  IF ff.closed THEN [ff EXCEPT !.call = "idle", !.closeErr = NilErr]
  ELSE LET f1 == IF ff.saveTicker # "nil"
                 THEN [ff EXCEPT !.saveTicker = "stopped", !.saveStop = "closed"]
                 ELSE ff
       IN [f1 EXCEPT !.call = "close_save", !.finalErr = NilErr]

\* File.Close after the final Save: f.closed = true
closeMark(ff) == [ff EXCEPT !.closed = TRUE, !.call = "close_memory"]

\* File.Close: f.memory.Close(), then the first error is returned
closeMemory(ff, mem) ==
  LET r == Close(mem) IN
  [f |-> [ff EXCEPT !.call = "idle",
                    !.closeErr = IF ff.finalErr # NilErr THEN ff.finalErr ELSE r.err],
   m |-> r.m]

\* ---------------------------------------- the persistence state machine
\* the keys and the Set arguments used on the file backend
FileStoreKeys == {<<"a">>}
FileKeyArgs == FileStoreKeys \cup {EmptyString}
FileSetArgs ==
  {<<<<"a">>, [isNil |-> FALSE, bytes |-> <<>>], 0>>,
   <<<<"a">>, [isNil |-> FALSE, bytes |-> <<7, 7>>], 1>>,
   <<EmptyString, [isNil |-> FALSE, bytes |-> <<>>], 0>>,
   <<<<"a">>, NilSlice, 0>>}
FileOrders == Orders(FileStoreKeys)
\* whether AutoSaveInterval > 0
FileAutoSave == BOOLEAN

\* a crash of the process: data that was not synced may be lost in part
crashFile(file, torn) ==
  IF file.exists /\ ~file.synced /\ torn
  THEN [file EXCEPT !.entries = <<>>, !.complete = FALSE]
  ELSE file
\* what a crash leaves of the temporary file is never read again (the next
\* Save truncates it): it is kept as a file of unknown content
crashTmp(file) ==
  IF file.exists
  THEN [exists |-> TRUE, entries |-> <<>>, complete |-> FALSE, synced |-> FALSE]
  ELSE file

InitFile ==
  /\ m = NewMemory(FileMemoryConfig)
  /\ loop = "none"
  /\ now = 1
  /\ inserted = <<>>
  /\ f = NilFile
  /\ disk = EmptyDisk
  /\ se = NilSync
  /\ fed = NoEvents
  /\ g = NoGoroutines

\* NewFile with LoadOnStart: a first instance, or a fresh one after the
\* previous one was closed or lost
\* NewFile: the directory is created, or the error of that returned with no
\* instance; what Load returns is dropped and the instance is returned
ErrMkdir == "creating cache directory"
NewFile(autoSave, dirOk, dsk, t, order) ==
  IF ~dirOk THEN [f |-> NilFile, m |-> NewMemory(FileMemoryConfig), err |-> ErrMkdir]
  ELSE [f |-> NewFileStruct(autoSave),
        m |-> Load(NewFileStruct(autoSave), NewMemory(FileMemoryConfig),
                   dsk, t, order).m,
        err |-> NilErr]
CallNewFile(autoSave, order) ==
  /\ IF f.alive THEN f.closed /\ f.call = "idle" /\ m.closed ELSE TRUE
  /\ \E dirOk \in BOOLEAN :
       IF NewFile(autoSave, dirOk, disk, now, order).err = NilErr
       THEN /\ f' = NewFile(autoSave, dirOk, disk, now, order).f
            /\ m' = NewFile(autoSave, dirOk, disk, now, order).m
       ELSE UNCHANGED <<f, m>>
  /\ UNCHANGED <<now, loop, inserted, disk, se, fed, g>>

Crash ==
  /\ f.alive
  /\ f' = NilFile
  /\ m' = NewMemory(FileMemoryConfig)
  /\ \E torn \in BOOLEAN :
       disk' = [snapshot |-> crashFile(disk.snapshot, torn), tmp |-> crashTmp(disk.tmp)]
  /\ UNCHANGED <<now, loop, inserted, se, fed, g>>

\* the caller is between two calls
Idle == f.alive /\ f.call = "idle"

CallFileGet(key) ==
  /\ Idle
  /\ LET r == FileGet(f, m, key, now) IN Bounded(r.m) /\ m' = r.m
  /\ UNCHANGED <<now, loop, inserted, f, disk, se, fed, g>>

CallFileSet(key, value, ttl, order) ==
  /\ Idle
  /\ m' = FileSet(f, m, key, value, ttl, now, order).m
  /\ UNCHANGED <<now, loop, inserted, f, disk, se, fed, g>>

CallFileDelete(key) ==
  /\ Idle
  /\ m' = FileDelete(f, m, key).m
  /\ UNCHANGED <<now, loop, inserted, f, disk, se, fed, g>>

CallFileClear ==
  /\ Idle
  /\ m' = FileClear(f, m).m
  /\ UNCHANGED <<now, loop, inserted, f, disk, se, fed, g>>

CallFileKeys(pattern) ==
  /\ Idle
  /\ \A order \in FileOrders :
       FileKeys(f, m, pattern, now, order).err \in {NilErr, ErrBackendClosed}
  /\ UNCHANGED <<m, now, loop, inserted, f, disk, se, fed, g>>

CallFileStats ==
  /\ Idle
  /\ FileStats(f, m).err \in {NilErr, ErrBackendClosed}
  /\ UNCHANGED <<m, now, loop, inserted, f, disk, se, fed, g>>

\* File.Load takes the write lock: it waits for every Save in progress
CallFileLoad(order) ==
  /\ Idle
  /\ f.auto.pc = "idle"
  /\ m' = Load(f, m, disk, now, order).m
  /\ UNCHANGED <<now, loop, inserted, f, disk, se, fed, g>>

\* a call of Save
CallFileSave(ok) ==
  /\ Idle
  /\ LET r == saveCreate([f EXCEPT !.call = "save"], "save", disk, "manual", ok) IN
       f' = r.f /\ disk' = r.disk
  /\ UNCHANGED <<m, now, loop, inserted, se, fed, g>>

\* the goroutines that can be in Save at the same time
SaveSlots == {"save", "auto"}

SaveEncodeStep(w, order, ok) ==
  /\ f.alive
  /\ f[w].pc = "created"
  /\ LET r == saveEncode(f, w, m, disk, now, order, ok) IN
       Bounded(r.m) /\ f' = r.f /\ m' = r.m /\ disk' = r.disk
  /\ UNCHANGED <<now, loop, inserted, se, fed, g>>

SaveSyncStep(w, ok) ==
  /\ f.alive
  /\ f[w].pc = "encoded"
  /\ LET r == saveSync(f, w, disk, ok) IN f' = r.f /\ disk' = r.disk
  /\ UNCHANGED <<m, now, loop, inserted, se, fed, g>>

SaveCloseFileStep(w, ok) ==
  /\ f.alive
  /\ f[w].pc = "synced"
  /\ LET r == saveCloseFile(f, w, disk, ok) IN f' = r.f /\ disk' = r.disk
  /\ UNCHANGED <<m, now, loop, inserted, se, fed, g>>

SaveRenameStep(w, ok) ==
  /\ f.alive
  /\ f[w].pc = "closed"
  /\ LET r == saveRename(f, w, disk, ok) IN f' = r.f /\ disk' = r.disk
  /\ UNCHANGED <<m, now, loop, inserted, se, fed, g>>

CallFileClose ==
  /\ Idle
  /\ f' = closeBegin(f)
  /\ UNCHANGED <<m, now, loop, inserted, disk, se, fed, g>>

\* File.Close: saveErr := f.Save()
CloseFinalSave(ok) ==
  /\ f.alive
  /\ f.call = "close_save"
  /\ LET r == saveCreate(f, "save", disk, "close", ok) IN f' = r.f /\ disk' = r.disk
  /\ UNCHANGED <<m, now, loop, inserted, se, fed, g>>

\* File.Close: f.mu.Lock waits for every Save to return
CloseMarkStep ==
  /\ f.alive
  /\ f.call = "close_mark"
  /\ f.auto.pc = "idle"
  /\ f' = closeMark(f)
  /\ UNCHANGED <<m, now, loop, inserted, disk, se, fed, g>>

CloseMemoryStep ==
  /\ f.alive
  /\ f.call = "close_memory"
  /\ LET r == closeMemory(f, m) IN f' = r.f /\ m' = r.m
  /\ UNCHANGED <<now, loop, inserted, disk, se, fed, g>>

\* the save ticker delivers a tick into its one-slot channel
SaveTickerFire ==
  /\ f.alive
  /\ f.saveTicker = "running"
  /\ f.tickerC = 0
  /\ f' = [f EXCEPT !.tickerC = 1]
  /\ UNCHANGED <<m, now, loop, inserted, disk, se, fed, g>>

\* autoSaveLoop: case <-f.saveTicker.C
AutoSaveLoopTick(ok) ==
  /\ f.alive
  /\ f.autoSaveLoop = "running"
  /\ f.tickerC = 1
  /\ f.auto.pc = "idle"
  /\ LET f1 == [f EXCEPT !.tickerC = 0] IN
       IF f.closed
       THEN f' = [f1 EXCEPT !.autoSaveLoop = "exited"] /\ disk' = disk
       ELSE LET r == saveCreate(f1, "auto", disk, "auto", ok) IN
              f' = r.f /\ disk' = r.disk
  /\ UNCHANGED <<m, now, loop, inserted, se, fed, g>>

\* autoSaveLoop: case <-f.saveStop
AutoSaveLoopStop ==
  /\ f.alive
  /\ f.autoSaveLoop = "running"
  /\ f.saveStop = "closed"
  /\ f.auto.pc = "idle"
  /\ f' = [f EXCEPT !.autoSaveLoop = "exited"]
  /\ UNCHANGED <<m, now, loop, inserted, disk, se, fed, g>>

NextFile ==
  \/ \E autoSave \in FileAutoSave, order \in FileOrders : CallNewFile(autoSave, order)
  \/ Crash
  \/ \E key \in FileKeyArgs : CallFileGet(key)
  \/ \E args \in FileSetArgs, order \in FileOrders :
       CallFileSet(args[1], args[2], args[3], order)
  \/ \E key \in FileKeyArgs : CallFileDelete(key)
  \/ CallFileClear
  \/ \E pattern \in PatternArgs : CallFileKeys(pattern)
  \/ CallFileStats
  \/ \E order \in FileOrders : CallFileLoad(order)
  \/ \E ok \in BOOLEAN : CallFileSave(ok)
  \/ \E w \in SaveSlots, order \in FileOrders, ok \in BOOLEAN :
       SaveEncodeStep(w, order, ok)
  \/ \E w \in SaveSlots, ok \in BOOLEAN : SaveSyncStep(w, ok)
  \/ \E w \in SaveSlots, ok \in BOOLEAN : SaveCloseFileStep(w, ok)
  \/ \E w \in SaveSlots, ok \in BOOLEAN : SaveRenameStep(w, ok)
  \/ CallFileClose
  \/ \E ok \in BOOLEAN : CloseFinalSave(ok)
  \/ CloseMarkStep
  \/ CloseMemoryStep
  \/ SaveTickerFire
  \/ \E ok \in BOOLEAN : AutoSaveLoopTick(ok)
  \/ AutoSaveLoopStop

SpecFile == InitFile /\ [][NextFile]_vars

\* ------------------------------------------ the snapshot round-trip scenario
\* TestFile_SaveAndLoad, TestFile_TTLPersistence: a cache is populated and
\* saved, time passes, the process ends and a fresh instance loads the snapshot
NextSnapshot ==
  \/ Tick
  \/ \E order \in RangeOrders : CallNewFile(FALSE, order)
  \/ Crash
  \/ \E args \in SetArgs, order \in RangeOrders :
       CallFileSet(args[1], args[2], args[3], order)
  \/ CallFileSave(TRUE)
  \/ \E order \in RangeOrders : SaveEncodeStep("save", order, TRUE)
  \/ SaveSyncStep("save", TRUE)
  \/ SaveCloseFileStep("save", TRUE)
  \/ SaveRenameStep("save", TRUE)

SpecSnapshot == InitFile /\ [][NextSnapshot]_vars

\* the cache a fresh instance holds when it loads, at time t, the snapshot
\* that Save writes from the engine now
C12_Reloaded(t, saveOrder, loadOrder) ==
  LET c == saveCollect(m, Keys(m, <<"*">>, now, saveOrder).keys, <<>>, now)
      snapshot == [exists |-> TRUE, entries |-> GobEncode(c.entries),
                   complete |-> TRUE, synced |-> TRUE]
  IN Load(NewFileStruct(FALSE), NewMemory(FileMemoryConfig),
          [snapshot |-> snapshot, tmp |-> NoFile], t, loadOrder).m
\* C12: when a populated cache is saved and a fresh instance loads the
\* snapshot at the same or a later time, every entry that is not expired at
\* load time is in the fresh instance with the same key and value, and every
\* entry whose expiry time has passed by then is absent.
C12_RoundTrip ==
  (f.alive /\ ~f.closed) =>
    \A t \in now..MaxTime, saveOrder \in RangeOrders, loadOrder \in RangeOrders :
      LET fresh == C12_Reloaded(t, saveOrder, loadOrder) IN
      \A k \in DOMAIN m.data :
        /\ (m.data[k].ExpiresAt = ZeroTime \/ t < m.data[k].ExpiresAt) =>
             /\ k \in DOMAIN fresh.data
             /\ fresh.data[k].Key = k
             /\ fresh.data[k].Value = m.data[k].Value
        /\ (m.data[k].ExpiresAt # ZeroTime /\ t > m.data[k].ExpiresAt) =>
             k \notin DOMAIN fresh.data

\* a step of Save that fails leaves no file at the temporary path, leaves the
\* snapshot alone and makes Save return the error
C13_FailureCleansUp(w, r, err) ==
  /\ r.disk.tmp = NoFile
  /\ r.disk.snapshot = disk.snapshot
  /\ r.f[w].pc = "idle"
  /\ r.err = err
C13_SnapshotComplete ==
  /\ disk.snapshot.exists => (disk.snapshot.complete /\ disk.snapshot.synced)
  /\ f.alive =>
       \A w \in SaveSlots :
         /\ f[w].pc = "created" =>
              \A order \in FileOrders :
                C13_FailureCleansUp(w, saveEncode(f, w, m, disk, now, order, FALSE),
                                    ErrEncode)
         /\ f[w].pc = "encoded" =>
              C13_FailureCleansUp(w, saveSync(f, w, disk, FALSE), ErrSyncFile)
         /\ f[w].pc = "synced" =>
              C13_FailureCleansUp(w, saveCloseFile(f, w, disk, FALSE), ErrCloseFile)
         /\ f[w].pc = "closed" =>
              C13_FailureCleansUp(w, saveRename(f, w, disk, FALSE), ErrRename)
\* the snapshot changes only by the rename of a complete, synced temporary file
C13_OnlyRename ==
  disk'.snapshot # disk.snapshot =>
    /\ f.alive
    /\ \E w \in SaveSlots : f[w].pc = "closed"
    /\ disk.tmp.exists /\ disk.tmp.complete /\ disk.tmp.synced
    /\ disk'.snapshot = disk.tmp
    /\ ~disk'.tmp.exists
\* C13: at every point of a Save, a crash or a failed step included, the file
\* at the snapshot path is absent or a complete, synced snapshot: it is replaced
\* only by the rename of the fully written and synced temporary file; a step of
\* Save that fails removes the temporary file and Save returns that error.
C13_SaveCrashSafe == [](C13_SnapshotComplete) /\ [][C13_OnlyRename]_vars


\* Close is past the point where it stops the auto-save loop
C14_InClose == f.call \in {"close_save", "close_mark", "close_memory"}
C14_LoopStopped == f.saveTicker # "nil" => (f.saveTicker = "stopped" /\ f.saveStop = "closed")
C14_State ==
  f.alive =>
    /\ (C14_InClose \/ f.save.by = "close" \/ f.closed) => C14_LoopStopped
    /\ f.save.by = "close" => (f.call = "close_save" /\ ~f.closed /\ ~m.closed)
    /\ f.call \in {"close_save", "close_mark"} => (~f.closed /\ ~m.closed)
    /\ f.call = "close_memory" => (f.closed /\ ~m.closed /\ f.save.pc = "idle")
    /\ (f.closed /\ f.call = "idle") =>
         /\ m.closed
         /\ f.save.pc = "idle"
C14_Step ==
  (f.alive /\ f'.alive) =>
    \* the final Save starts from Close, once, after the loop was told to stop
    /\ (f'.save.by = "close" /\ f.save.by # "close") =>
         (f.call = "close_save" /\ f.save.pc = "idle" /\ C14_LoopStopped)
    \* Close goes on when its Save has returned, and keeps what it returned
    /\ (f'.call = "close_mark" /\ f.call # "close_mark") =>
         (f.call = "close_save" /\ f'.save.pc = "idle")
    /\ (f'.closed /\ ~f.closed) => (f.call = "close_mark" /\ f'.call = "close_memory")
    /\ (m'.closed /\ ~m.closed) => (f.closed /\ f.call = "close_memory")
    /\ (f.call = "close_memory" /\ f'.call = "idle") =>
         (f'.closed /\ m'.closed /\ f'.closeErr = f.finalErr)
\* C14: Close tells the auto-save loop to stop, then runs one final Save, then
\* marks the subsystem closed and closes the wrapped engine, in this order; when
\* the final Save fails Close returns its error, and the subsystem and the
\* engine are closed all the same.
C14_CloseOrder == [](C14_State) /\ [][C14_Step]_vars
\* Close has returned the error of its final Save and everything is closed
C14_Witness ==
  /\ f.alive /\ f.closed /\ f.call = "idle" /\ m.closed
  /\ f.saveStop = "closed"
  /\ f.closeErr # NilErr


\* every operation on the closed subsystem fails with the closed error and
\* leaves the engine and the disk as they are
C15_OperationsFail ==
  /\ \A key \in FileKeyArgs :
       /\ FileGet(f, m, key, now) = [m |-> m, entry |-> NilEntry, err |-> ErrBackendClosed]
       /\ FileDelete(f, m, key) = [m |-> m, err |-> ErrBackendClosed]
  /\ \A args \in FileSetArgs, order \in FileOrders :
       FileSet(f, m, args[1], args[2], args[3], now, order)
         = [m |-> m, err |-> ErrBackendClosed]
  /\ FileClear(f, m) = [m |-> m, err |-> ErrBackendClosed]
  /\ \A pattern \in PatternArgs, order \in FileOrders :
       FileKeys(f, m, pattern, now, order) = [keys |-> <<>>, err |-> ErrBackendClosed]
  /\ FileStats(f, m) = [stats |-> NilStats, err |-> ErrBackendClosed]
  /\ \A order \in FileOrders :
       Load(f, m, disk, now, order) = [m |-> m, err |-> ErrBackendClosed]
  /\ \A ok \in BOOLEAN :
       LET r == saveCreate(f, "save", disk, "manual", ok) IN
         /\ r.err = ErrBackendClosed
         /\ r.disk = disk
         /\ r.f.save.pc = "idle"
\* a further Close returns nil at once: no Save is started, nothing is stopped
\* or closed again
C15_CloseAgain ==
  LET r == closeBegin(f) IN
    /\ r.call = "idle"
    /\ r.closeErr = NilErr
    /\ r = [f EXCEPT !.call = "idle", !.closeErr = NilErr]
\* C15: once the persistence subsystem is closed, a further Close returns nil
\* and starts no Save, and Get, Set, Delete, Clear, Keys, Stats, Save and Load
\* return the closed error and change neither the wrapped engine nor the files.
C15_ClosedFinal ==
  (f.alive /\ f.closed) =>
    /\ C15_OperationsFail
    /\ f.call = "idle" => C15_CloseAgain
\* a closed subsystem whose final Save left a snapshot behind
C15_Witness ==
  /\ f.alive /\ f.closed /\ f.call = "idle" /\ m.closed
  /\ disk.snapshot.exists /\ disk.snapshot.entries # <<>>
  /\ f.closeErr = NilErr


\* ------------------------------------------------------------------ sync.go
\* resources.Event kinds
EventTypeAdd == "add"
EventTypeUpdate == "update"
EventTypeDelete == "delete"

\* the errors of the sync engine
ErrAlreadyRunning == "sync engine already running"
ErrSubscribe == "failed to subscribe to events"
ErrMarshal == "failed to marshal event data"
ErrUnknownEvent == "unknown event type"
ErrInitialSync == "initial sync failed"

\* KeyBuilder.Resource: resourceType + ":" + id
Resource(resourceType, id) == resourceType \o <<":">> \o id

\* json.Marshal of a json.RawMessage: a nil message gives null, any other is
\* compacted (insignificant white space removed) and must be a valid document
JSONNull == <<110, 117, 108, 108>>
JSONSpace == 32
JSONDocuments == {<<55>>, <<56>>}
jsonCompact(bytes) == SelectSeq(bytes, LAMBDA b : b # JSONSpace)
jsonMarshal(raw) ==
  IF raw.isNil THEN [bytes |-> JSONNull, err |-> NilErr]
  ELSE IF jsonCompact(raw.bytes) \in JSONDocuments
       THEN [bytes |-> jsonCompact(raw.bytes), err |-> NilErr]
       ELSE [bytes |-> <<>>, err |-> ErrMarshal]

\* SyncStats, DefaultSyncConfig (the handlers: whether one is configured)
NewSyncStats ==
  [EventsProcessed |-> 0, AddEvents |-> 0, UpdateEvents |-> 0, DeleteEvents |-> 0,
   SyncErrors |-> 0, LastEventTime |-> ZeroTime, LastError |-> "",
   LastErrorTime |-> ZeroTime, AvgLatency |-> 0]
DefaultSyncConfig ==
  [EnableAutoSync |-> TRUE, SyncOnStart |-> FALSE, ErrorHandler |-> FALSE]

\* NewSyncEngine: ctx and done are made here, once; loops are the syncLoop
\* goroutines launched so far, call the position of the caller of Start or
\* Stop, handled the number of calls of config.ErrorHandler, panicked whether
\* the process has died of a panic
NewSyncEngine(config) ==
  [alive |-> TRUE, config |-> config, stats |-> NewSyncStats,
   ctx |-> "live", done |-> "open", running |-> FALSE,
   loops |-> <<>>, call |-> "idle", handled |-> 0, panicked |-> FALSE]

\* handleError
handleError(s, err, t) ==
  [s EXCEPT !.stats.SyncErrors = @ + 1,
            !.stats.LastError = err,
            !.stats.LastErrorTime = t,
            !.handled = IF s.config.ErrorHandler THEN @ + 1 ELSE @]

\* handleAdd, handleUpdate: json.Marshal, then backend.Set with no TTL
handleAdd(mem, key, data, t, order) ==
  LET j == jsonMarshal(data.RawData) IN
  IF j.err # NilErr THEN [m |-> mem, err |-> j.err]
  ELSE Set(mem, key, [isNil |-> FALSE, bytes |-> j.bytes], 0, t, order)
handleUpdate(mem, key, data, t, order) ==
  LET j == jsonMarshal(data.RawData) IN
  IF j.err # NilErr THEN [m |-> mem, err |-> j.err]
  ELSE Set(mem, key, [isNil |-> FALSE, bytes |-> j.bytes], 0, t, order)
\* handleDelete that leaves the entry in the cache
handleDelete_Keep(mem, key) == [m |-> mem, err |-> NilErr]
\* handleDelete
handleDelete(mem, key) == Delete(mem, key)

\* the value of a call whose result is used more than once
Bind(result, Body(_)) == CHOOSE value \in {Body(r) : r \in {result}} : TRUE

\* processEventData
processEventData(s, mem, eventType, data, t, order) ==
  LET key == Resource(data.Type, data.ID) IN
  IF eventType = EventTypeAdd
  THEN Bind(handleAdd(mem, key, data, t, order), LAMBDA r :
         [s |-> [s EXCEPT !.stats.AddEvents = @ + 1], m |-> r.m, err |-> r.err])
  ELSE IF eventType = EventTypeUpdate
  THEN Bind(handleUpdate(mem, key, data, t, order), LAMBDA r :
         [s |-> [s EXCEPT !.stats.UpdateEvents = @ + 1], m |-> r.m, err |-> r.err])
  ELSE IF eventType = EventTypeDelete
  THEN Bind(handleDelete(mem, key), LAMBDA r :
         [s |-> [s EXCEPT !.stats.DeleteEvents = @ + 1], m |-> r.m, err |-> r.err])
  ELSE [s |-> s, m |-> mem, err |-> ErrUnknownEvent]

\* processEvent whose loop over the change records ends at the first failure
RECURSIVE processData_StopAtError(_, _, _, _, _, _)
processData_StopAtError(s, mem, eventType, datas, t, order) ==
  IF datas = <<>> THEN [s |-> s, m |-> mem]
  ELSE Bind(processEventData(s, mem, eventType, Head(datas), t, order), LAMBDA r :
         IF r.err # NilErr THEN [s |-> handleError(r.s, r.err, t), m |-> r.m]
         ELSE processData_StopAtError(r.s, r.m, eventType, Tail(datas), t, order))

\* processEvent: the loop over event.Data
RECURSIVE processData(_, _, _, _, _, _)
processData(s, mem, eventType, datas, t, order) ==
  IF datas = <<>> THEN [s |-> s, m |-> mem]
  ELSE Bind(processEventData(s, mem, eventType, Head(datas), t, order), LAMBDA r :
         processData(IF r.err # NilErr THEN handleError(r.s, r.err, t) ELSE r.s,
                     r.m, eventType, Tail(datas), t, order))

\* processEvent: the statistics, the change records, the moving average of the
\* latency (config.EventHandler only observes the event)
processEvent(s, mem, event, latency, t, order) ==
  LET s1 == [s EXCEPT !.stats.EventsProcessed = @ + 1, !.stats.LastEventTime = t] IN
  Bind(processData(s1, mem, event.Type, event.Data, t, order), LAMBDA r :
    [s |-> [r.s EXCEPT !.stats.AvgLatency =
                         IF @ = 0 THEN latency ELSE (@ * 9 + latency) \div 10],
     m |-> r.m])


\* the resource types of the full sync, in the order fullSync lists them, and
\* KeyBuilder.Light, Room, Zone, Scene, GroupedLight: the type's prefix
SyncTypes == <<"light", "room", "zone", "scene", "grouped_light">>
TypeKey(type, id) == <<type>> \o <<":">> \o id
\* json.Marshal of a resource struct: a document, never empty
StructJSON == <<123, 125>>

\* syncLights, syncRooms, syncZones, syncScenes, syncGroupedLights: List, then
\* Marshal and Set of every resource; the first failure is returned
RECURSIVE syncStore(_, _, _, _, _)
syncStore(mem, type, ids, t, order) ==
  IF ids = <<>> THEN [m |-> mem, err |-> NilErr]
  ELSE Bind(Set(mem, TypeKey(type, Head(ids)),
                [isNil |-> FALSE, bytes |-> StructJSON], 0, t, order), LAMBDA r :
         IF r.err # NilErr THEN r ELSE syncStore(r.m, type, Tail(ids), t, order))
syncResources(mem, type, listing, t, order) ==
  IF listing.err # NilErr THEN [m |-> mem, err |-> listing.err]
  ELSE syncStore(mem, type, listing.ids, t, order)

\* fullSync: the five types in turn, returning at the first failure
RECURSIVE fullSyncFrom(_, _, _, _, _)
fullSyncFrom(mem, i, bridge, t, order) ==
  IF i > Len(SyncTypes) THEN [m |-> mem, err |-> NilErr]
  ELSE Bind(syncResources(mem, SyncTypes[i], bridge[SyncTypes[i]], t, order),
            LAMBDA r :
              IF r.err # NilErr THEN r ELSE fullSyncFrom(r.m, i + 1, bridge, t, order))
fullSync(mem, bridge, t, order) == fullSyncFrom(mem, 1, bridge, t, order)

\* Start that does not test s.running
startBegin_NoRunningTest(s) ==
  [s |-> [s EXCEPT !.running = TRUE, !.call = "start_sync"], err |-> NilErr]

\* Start: the test and set of s.running under s.mu
startBegin(s) ==
  IF s.running THEN [s |-> [s EXCEPT !.call = "idle"], err |-> ErrAlreadyRunning]
  ELSE [s |-> [s EXCEPT !.running = TRUE, !.call = "start_sync"], err |-> NilErr]

\* Start: the full sync if configured, go s.syncLoop() if configured, return nil
startFinish(s, mem, bridge, t, order) ==
  Bind(IF s.config.SyncOnStart THEN fullSync(mem, bridge, t, order)
       ELSE [m |-> mem, err |-> NilErr], LAMBDA r :
    LET s1 == IF r.err # NilErr THEN handleError(s, ErrInitialSync, t) ELSE s IN
    [s |-> [s1 EXCEPT !.loops = IF s.config.EnableAutoSync
                                THEN Append(@, [pc |-> "subscribe", feed |-> "none"])
                                ELSE @,
                      !.call = "idle"],
     m |-> r.m, err |-> NilErr])

\* Stop: the test and reset of s.running under s.mu
stopBegin(s) ==
  IF ~s.running THEN [s |-> [s EXCEPT !.call = "idle"], err |-> NilErr]
  ELSE [s |-> [s EXCEPT !.running = FALSE, !.call = "stop_cancel"], err |-> NilErr]
\* Stop: s.cancel()
stopCancel(s) == [s EXCEPT !.ctx = "cancelled", !.call = "stop_wait"]
\* Stop: <-s.done, return nil
stopWait(s) == [s EXCEPT !.call = "idle"]

\* syncLoop returns: the deferred close(s.done); closing a closed channel panics
loopExit(s, i) ==
  LET s1 == [s EXCEPT !.loops[i].pc = "exited"] IN
  IF s.done = "closed" THEN [s1 EXCEPT !.panicked = TRUE]
  ELSE [s1 EXCEPT !.done = "closed"]
\* syncLoop: Subscribe
loopSubscribe(s, i, ok, t) ==
  IF ok THEN [s EXCEPT !.loops[i] = [pc |-> "select", feed |-> "open"]]
  ELSE loopExit(handleError(s, ErrSubscribe, t), i)


\* --------------------------------------------- the sync engine state machine
MaxEvents == 3
MaxLoops == 2

\* the cache the engine writes to
SyncMemoryConfig ==
  [MaxMemory |-> 0, MaxEntries |-> 0, CleanupInterval |-> 0,
   EvictionPolicy |-> EvictionLRU]
SyncConfigs ==
  [EnableAutoSync : BOOLEAN, SyncOnStart : BOOLEAN, ErrorHandler : BOOLEAN]

\* the events of the feed: change records of two lights with payloads that
\* are a document, a document with white space, nil, or not a document
SyncIds == {<<"a">>, <<"b">>}
Datum(id, bytes) ==
  [ID |-> id, Type |-> <<"light">>, RawData |-> [isNil |-> FALSE, bytes |-> bytes]]
NilDatum(id) == [ID |-> id, Type |-> <<"light">>, RawData |-> NilSlice]
SyncEvents ==
  {[Type |-> EventTypeAdd, Data |-> <<Datum(<<"a">>, <<55>>)>>],
   [Type |-> EventTypeUpdate, Data |-> <<Datum(<<"a">>, <<32, 56>>)>>],
   [Type |-> EventTypeDelete, Data |-> <<NilDatum(<<"a">>)>>],
   [Type |-> EventTypeAdd, Data |-> <<NilDatum(<<"b">>)>>],
   [Type |-> "error", Data |-> <<Datum(<<"a">>, <<55>>)>>],
   [Type |-> EventTypeAdd, Data |-> <<Datum(<<"a">>, <<123>>)>>],
   [Type |-> EventTypeAdd, Data |-> <<Datum(<<"a">>, <<123>>), Datum(<<"b">>, <<55>>)>>],
   [Type |-> EventTypeUpdate, Data |-> <<>>]}
Latencies == {0, 1}
\* the events fed while Start and Stop are exercised: one that is applied and
\* one that fails
ControlEvents ==
  {[Type |-> EventTypeAdd, Data |-> <<Datum(<<"a">>, <<55>>)>>],
   [Type |-> "error", Data |-> <<Datum(<<"a">>, <<55>>)>>]}

\* what the bridge answers to the List calls of the full sync
ErrList == "list failed"
BridgeOK ==
  [type \in {SyncTypes[i] : i \in DOMAIN SyncTypes} |->
     [ids |-> IF type \in {"light", "room"} THEN <<<<"a">>>> ELSE <<>>, err |-> NilErr]]
Bridges == {BridgeOK, [BridgeOK EXCEPT !["light"].err = ErrList]}

\* no Set of the engine's cache evicts: the order of Range is never used
SyncKeys ==
  {TypeKey("light", <<"a">>), TypeKey("light", <<"b">>), TypeKey("room", <<"a">>)}
SyncOrder ==
  <<TypeKey("light", <<"a">>), TypeKey("light", <<"b">>), TypeKey("room", <<"a">>)>>

\* the record of what has been fed to the engine: the number of events, of
\* single-change events of each kind, the last change of every resource, and
\* whether all of it was single-change add, update and delete events with a
\* payload that serializes and no full sync in between
IsPlain(event) ==
  /\ Len(event.Data) = 1
  /\ event.Type \in {EventTypeAdd, EventTypeUpdate, EventTypeDelete}
  /\ event.Type # EventTypeDelete => jsonMarshal(event.Data[1].RawData).err = NilErr
Fed(log, event) ==
  IF ~IsPlain(event) THEN [log EXCEPT !.length = @ + 1, !.plain = FALSE]
  ELSE LET key == Resource(event.Data[1].Type, event.Data[1].ID)
           change == IF event.Type = EventTypeDelete
                     THEN [present |-> FALSE, bytes |-> <<>>]
                     ELSE [present |-> TRUE,
                           bytes |-> jsonMarshal(event.Data[1].RawData).bytes]
       IN [log EXCEPT
             !.length = @ + 1,
             !.adds = IF event.Type = EventTypeAdd THEN @ + 1 ELSE @,
             !.updates = IF event.Type = EventTypeUpdate THEN @ + 1 ELSE @,
             !.deletes = IF event.Type = EventTypeDelete THEN @ + 1 ELSE @,
             !.last = [k \in DOMAIN log.last \cup {key} |->
                         IF k = key THEN change ELSE log.last[k]]]

InitSync ==
  /\ m = NewMemory(SyncMemoryConfig)
  /\ loop = "none"
  /\ now = 1
  /\ inserted = <<>>
  /\ f = NilFile
  /\ disk = EmptyDisk
  /\ \E config \in SyncConfigs : se = NewSyncEngine(config)
  /\ fed = NoEvents
  /\ g = NoGoroutines

\* the process is running and the caller is between two calls
SyncLive == se.alive /\ ~se.panicked
SyncIdle == SyncLive /\ se.call = "idle"

CallStart ==
  /\ SyncIdle
  /\ Len(se.loops) < MaxLoops
  /\ se' = startBegin(se).s
  /\ UNCHANGED <<m, now, loop, inserted, f, disk, fed, g>>

StartFinish(bridge) ==
  /\ SyncLive
  /\ se.call = "start_sync"
  /\ \E r \in {startFinish(se, m, bridge, now, SyncOrder)} : se' = r.s /\ m' = r.m
  /\ fed' = IF se.config.SyncOnStart /\ fed.length > 0
            THEN [fed EXCEPT !.plain = FALSE] ELSE fed
  /\ UNCHANGED <<now, loop, inserted, f, disk, g>>

CallStop ==
  /\ SyncIdle
  /\ se' = stopBegin(se).s
  /\ UNCHANGED <<m, now, loop, inserted, f, disk, fed, g>>

StopCancel ==
  /\ SyncLive
  /\ se.call = "stop_cancel"
  /\ se' = stopCancel(se)
  /\ UNCHANGED <<m, now, loop, inserted, f, disk, fed, g>>

\* <-s.done blocks until the channel is closed
StopWait ==
  /\ SyncLive
  /\ se.call = "stop_wait"
  /\ se.done = "closed"
  /\ se' = stopWait(se)
  /\ UNCHANGED <<m, now, loop, inserted, f, disk, fed, g>>

LoopSubscribe(i, ok) ==
  /\ SyncLive
  /\ i \in DOMAIN se.loops
  /\ se.loops[i].pc = "subscribe"
  /\ se' = loopSubscribe(se, i, ok, now)
  /\ UNCHANGED <<m, now, loop, inserted, f, disk, fed, g>>

\* syncLoop: case event, ok := <-events with ok true
LoopEvent(i, event, latency) ==
  /\ SyncLive
  /\ i \in DOMAIN se.loops
  /\ se.loops[i].pc = "select"
  /\ se.loops[i].feed = "open"
  /\ fed.length < MaxEvents
  /\ \E r \in {processEvent(se, m, event, latency, now, SyncOrder)} :
       se' = r.s /\ m' = r.m
  /\ fed' = Fed(fed, event)
  /\ UNCHANGED <<now, loop, inserted, f, disk, g>>

\* syncLoop: case event, ok := <-events with ok false
LoopFeedClosed(i) ==
  /\ SyncLive
  /\ i \in DOMAIN se.loops
  /\ se.loops[i].pc = "select"
  /\ se.loops[i].feed = "closed"
  /\ se' = loopExit(se, i)
  /\ UNCHANGED <<m, now, loop, inserted, f, disk, fed, g>>

\* syncLoop: case <-s.ctx.Done()
LoopCancelled(i) ==
  /\ SyncLive
  /\ i \in DOMAIN se.loops
  /\ se.loops[i].pc = "select"
  /\ se.ctx = "cancelled"
  /\ se' = loopExit(se, i)
  /\ UNCHANGED <<m, now, loop, inserted, f, disk, fed, g>>

\* the producer closes the feed of a subscription
ProducerClose(i) ==
  /\ SyncLive
  /\ i \in DOMAIN se.loops
  /\ se.loops[i].feed = "open"
  /\ se' = [se EXCEPT !.loops[i].feed = "closed"]
  /\ UNCHANGED <<m, now, loop, inserted, f, disk, fed, g>>

\* the owner of the cache closes it
CloseBackend ==
  /\ SyncLive
  /\ ~m.closed
  /\ m' = Close(m).m
  /\ UNCHANGED <<now, loop, inserted, f, disk, se, fed, g>>

\* Start, Stop, the loops and their feeds
NextSync ==
  \/ CallStart
  \/ \E bridge \in Bridges : StartFinish(bridge)
  \/ CallStop
  \/ StopCancel
  \/ StopWait
  \/ \E i \in 1..MaxLoops, ok \in BOOLEAN : LoopSubscribe(i, ok)
  \/ \E i \in 1..MaxLoops, event \in ControlEvents : LoopEvent(i, event, 1)
  \/ \E i \in 1..MaxLoops : LoopFeedClosed(i)
  \/ \E i \in 1..MaxLoops : LoopCancelled(i)
  \/ \E i \in 1..MaxLoops : ProducerClose(i)

SpecSync == InitSync /\ [][NextSync]_vars

\* a started engine applying the events of its feed to the cache
NextEvents ==
  \/ CallStart
  \/ StartFinish(BridgeOK)
  \/ LoopSubscribe(1, TRUE)
  \/ \E event \in SyncEvents, latency \in Latencies : LoopEvent(1, event, latency)
  \/ CloseBackend

SpecEvents == InitSync /\ [][NextEvents]_vars


\* Start and Stop as the caller sees them, on the engine between two calls
C16_Calls ==
  SyncIdle =>
    /\ ~se.running =>
         /\ startBegin(se).err = NilErr
         /\ startBegin(se).s.running
         /\ \A bridge \in Bridges :
              LET r == startFinish(startBegin(se).s, m, bridge, now, SyncOrder) IN
                r.s.running /\ r.s.call = "idle" /\ r.err = NilErr
         /\ stopBegin(se) = [s |-> se, err |-> NilErr]
    /\ se.running =>
         /\ startBegin(se) = [s |-> se, err |-> ErrAlreadyRunning]
         /\ stopBegin(se).err = NilErr
         /\ ~stopBegin(se).s.running
\* s.running changes only at the start of a call of Start or Stop, a loop is
\* launched and the cache is fully synced only by a Start that found it false
C16_Step ==
  (se.alive /\ se'.alive) =>
    /\ (se'.running /\ ~se.running) => (se.call = "idle" /\ se'.call = "start_sync")
    /\ (~se'.running /\ se.running) => (se.call = "idle" /\ se'.call = "stop_cancel")
    /\ Len(se'.loops) # Len(se.loops) =>
         (se.call = "start_sync" /\ se.running /\ Len(se'.loops) = Len(se.loops) + 1)
    /\ se'.stats.SyncErrors # se.stats.SyncErrors /\ se'.stats.LastError = ErrInitialSync =>
         se.call = "start_sync"
\* C16: the engine is Stopped when constructed; Start on a Stopped engine makes
\* it Running and returns nil; Start on a Running engine returns the
\* already-running error and changes nothing (no loop launched, no full sync);
\* Stop on a Stopped engine returns nil and changes nothing; Stop on a Running
\* engine makes it Stopped.
C16_StartStop == [](C16_Calls) /\ [][C16_Step]_vars
\* an engine that was started, ran its loop, and was stopped
C16_Witness ==
  /\ SyncIdle /\ ~se.running
  /\ Len(se.loops) = 1 /\ se.loops[1].pc = "exited"
  /\ se.stats.EventsProcessed > 0


\* the scheduler runs every goroutine that can take a step: the caller inside
\* Start or Stop and every loop that can subscribe or leave its select
SyncFairness ==
  /\ WF_vars(\E bridge \in Bridges : StartFinish(bridge))
  /\ WF_vars(StopCancel)
  /\ WF_vars(StopWait)
  /\ \A i \in 1..MaxLoops :
       /\ WF_vars(\E ok \in BOOLEAN : LoopSubscribe(i, ok))
       /\ WF_vars(LoopFeedClosed(i))
       /\ WF_vars(LoopCancelled(i))
SpecSyncFair == SpecSync /\ SyncFairness

\* the caller is inside a Stop that found the engine Running
C17_Stopping == se.alive /\ se.call \in {"stop_cancel", "stop_wait"}
C17_Returned == se.alive /\ se.call = "idle"
\* when Stop returns every loop that was launched has exited
C17_LoopsExited ==
  (se.alive /\ se.call = "stop_wait" /\ se'.call = "idle") =>
    \A i \in DOMAIN se'.loops : se'.loops[i].pc = "exited"
\* C17: a Stop called on a Running engine eventually returns, in every
\* configuration and whether the loop waits for an event or has exited, and
\* when it returns every loop has exited.
C17_StopReturns == (C17_Stopping ~> C17_Returned) /\ [][C17_LoopsExited]_vars


\* the cache entry of a resource is what its last change says
C18_Mirrors(k) ==
  IF fed.last[k].present
  THEN /\ k \in DOMAIN m.data
       /\ m.data[k].Value = fed.last[k].bytes
       /\ m.data[k].ExpiresAt = ZeroTime
       /\ m.data[k].TTL = 0
  ELSE k \notin DOMAIN m.data
\* C18: after any sequence of single-change add, update and delete events
\* whose payloads serialize, applied to a cache that is open and never evicts,
\* the cache holds for every changed resource, under the key "type:id", the
\* serialized payload of its last add or update with no expiry, or nothing if
\* its last event was a delete; the add, update and delete counters are the
\* numbers of events of each kind and events-processed is their total.
C18_CacheMirrorsFeed ==
  (se.alive /\ fed.plain /\ ~m.closed) =>
    /\ DOMAIN fed.last \subseteq {<<"light", ":", "a">>, <<"light", ":", "b">>}
    /\ \A k \in DOMAIN fed.last : C18_Mirrors(k)
    /\ se.stats.AddEvents = fed.adds
    /\ se.stats.UpdateEvents = fed.updates
    /\ se.stats.DeleteEvents = fed.deletes
    /\ se.stats.EventsProcessed = fed.length
    /\ fed.length = fed.adds + fed.updates + fed.deletes
\* add, update, delete for one resource: counters 1/1/1 and 3, no entry left
C18_Witness ==
  /\ se.alive /\ fed.plain /\ ~m.closed
  /\ fed.adds = 1 /\ fed.updates = 1 /\ fed.deletes = 1 /\ fed.length = 3
  /\ DOMAIN fed.last = {<<"light", ":", "a">>}
  /\ ~fed.last[<<"light", ":", "a">>].present


\* the error a change record fails with when it is applied to the cache as it
\* is now: an unknown kind, a payload that does not serialize, a closed cache
C19_RecordError(eventType, data) ==
  IF eventType \notin {EventTypeAdd, EventTypeUpdate, EventTypeDelete}
  THEN ErrUnknownEvent
  ELSE IF eventType # EventTypeDelete /\ jsonMarshal(data.RawData).err # NilErr
  THEN ErrMarshal
  ELSE IF m.closed THEN ErrBackendClosed
  ELSE NilErr
C19_Failing(event) ==
  {i \in DOMAIN event.Data : C19_RecordError(event.Type, event.Data[i]) # NilErr}
\* the last record of the event that writes the key of record i
C19_LastFor(event, i) ==
  \A j \in DOMAIN event.Data :
    j > i => Resource(event.Data[j].Type, event.Data[j].ID)
               # Resource(event.Data[i].Type, event.Data[i].ID)
C19_Event(event) ==
  LET r == processEvent(se, m, event, 1, now, SyncOrder)
      failing == C19_Failing(event)
      n == Cardinality(failing)
  IN /\ r.s.stats.SyncErrors = se.stats.SyncErrors + n
     /\ r.s.handled = se.handled + (IF se.config.ErrorHandler THEN n ELSE 0)
     /\ IF n = 0
        THEN r.s.stats.LastError = se.stats.LastError
        ELSE LET last == CHOOSE i \in failing : \A j \in failing : j <= i IN
             r.s.stats.LastError = C19_RecordError(event.Type, event.Data[last])
     \* the loop goes on: it is where it was, and nothing was signalled
     /\ r.s.loops = se.loops
     /\ r.s.done = se.done
     /\ r.s.running = se.running
     /\ r.s.stats.EventsProcessed = se.stats.EventsProcessed + 1
     \* the records that do not fail are applied, those after a failure too
     /\ \A i \in DOMAIN event.Data \ failing :
          LET key == Resource(event.Data[i].Type, event.Data[i].ID) IN
          C19_LastFor(event, i) =>
            IF event.Type = EventTypeDelete THEN key \notin DOMAIN r.m.data
            ELSE /\ key \in DOMAIN r.m.data
                 /\ r.m.data[key].Value = jsonMarshal(event.Data[i].RawData).bytes
\* C19: a change record that fails (unknown kind, payload that does not
\* serialize, store failure) adds exactly one to the error counter, sets the
\* last error, calls the error handler if one is configured, and the loop goes
\* on: the other records of the event are applied and the loop stays in its
\* select for the next event.
C19_ErrorsDoNotStop ==
  (SyncLive /\ \E i \in DOMAIN se.loops : se.loops[i].pc = "select") =>
    \A event \in SyncEvents : C19_Event(event)
\* a record failed, the record after it in the same event was applied, the
\* handler was called and the loop is waiting for the next event
C19_Witness ==
  /\ SyncLive /\ se.config.ErrorHandler
  /\ se.loops # <<>> /\ se.loops[1].pc = "select"
  /\ se.stats.SyncErrors > 0 /\ se.handled = se.stats.SyncErrors
  /\ se.stats.LastError = ErrMarshal
  /\ <<"light", ":", "b">> \in DOMAIN m.data
  /\ fed.length > 1


\* loop i leaves its select with its feed closed by the producer
C20_FeedClosedExit(i) ==
  /\ se.alive /\ ~se.panicked
  /\ se.loops[i].pc = "select" /\ se.loops[i].feed = "closed"
  /\ se'.loops[i].pc = "exited"
C20_Step ==
  \A i \in DOMAIN se.loops :
    C20_FeedClosedExit(i) =>
      /\ se'.stats = se.stats
      /\ se'.handled = se.handled
      /\ se'.done = "closed"
      /\ ~se'.panicked
\* a Stop that waits after a loop has exited on a closed feed can return
C20_StopDoesNotBlock ==
  (se.alive /\ se.call = "stop_wait"
   /\ \E i \in DOMAIN se.loops : se.loops[i].pc = "exited" /\ se.loops[i].feed = "closed")
    => ENABLED StopWait
\* C20: when the producer closes the feed the loop exits and closes s.done
\* without recording an error (statistics unchanged, error handler not called,
\* no crash), and a later Stop does not block on s.done.
C20_FeedClosedIsClean == [](C20_StopDoesNotBlock) /\ [][C20_Step]_vars


\* ------------------------------------------ concurrent callers of one engine
\* A goroutine inside Set or Get is at one of the statements of the operation
\* that touch shared state: the sync.Map operations, updateSize (under m.mu),
\* makeRoom (under m.mu) and the unsynchronised accesses to the fields of the
\* loaded *Entry.  entry is the *Entry the goroutine holds (the new one in
\* Set, the loaded one in Get), old the one Set found under the key; stale
\* says that the held *Entry is no longer the one in the map.
Goroutine(op, key, calls) ==
  [op |-> op, key |-> key, pc |-> "idle", left |-> calls, entry |-> NilEntry,
   old |-> NilEntry, stale |-> FALSE, hits |-> 0, done |-> 0, failed |-> 0]

\* the call returns
returnCall(th, err) ==
  [th EXCEPT !.pc = "idle", !.left = @ - 1, !.entry = NilEntry, !.old = NilEntry,
             !.stale = FALSE, !.hits = 0,
             !.done = IF err = NilErr THEN @ + 1 ELSE @,
             !.failed = IF err = NilErr THEN @ ELSE @ + 1]

\* the entries under the keys K are no longer what a goroutine in Get loaded
unlink(gs, K) ==
  [i \in DOMAIN gs |->
     IF gs[i].op = "get" /\ gs[i].pc # "idle" /\ gs[i].key \in K
     THEN [gs[i] EXCEPT !.stale = TRUE] ELSE gs[i]]

\* Memory.Set, one statement at a time
setStep(mem, gs, i, value, ttl, t, order) ==
  LET th == gs[i] IN
  CASE th.pc = "idle" ->
         \* the tests of m.closed, key and value, NewEntry, makeRoom
         IF mem.closed
         THEN [m |-> mem, g |-> [gs EXCEPT ![i] = returnCall(th, ErrBackendClosed)]]
         ELSE IF th.key = EmptyString
         THEN [m |-> mem, g |-> [gs EXCEPT ![i] = returnCall(th, ErrInvalidKey)]]
         ELSE IF value.isNil
         THEN [m |-> mem, g |-> [gs EXCEPT ![i] = returnCall(th, ErrInvalidValue)]]
         ELSE LET entry == NewEntry(th.key, value.bytes, ttl, t)
                  r == makeRoom(mem, entry.Size, order)
                  gone == DOMAIN mem.data \ DOMAIN r.m.data
              IN IF r.err # NilErr
                 THEN [m |-> r.m,
                       g |-> [unlink(gs, gone) EXCEPT ![i] = returnCall(th, r.err)]]
                 ELSE [m |-> r.m,
                       g |-> [unlink(gs, gone) EXCEPT
                                ![i] = [th EXCEPT !.pc = "set_load", !.entry = entry]]]
    [] th.pc = "set_load" ->
         \* m.data.Load(key)
         IF th.key \in DOMAIN mem.data
         THEN [m |-> mem,
               g |-> [gs EXCEPT ![i] = [th EXCEPT !.pc = "set_sub",
                                          !.old = mem.data[th.key]]]]
         ELSE [m |-> mem, g |-> [gs EXCEPT ![i] = [th EXCEPT !.pc = "set_store"]]]
    [] th.pc = "set_sub" ->
         \* m.updateSize(-oldEntry.Size)
         [m |-> updateSize(mem, -th.old.Size),
          g |-> [gs EXCEPT ![i] = [th EXCEPT !.pc = "set_store"]]]
    [] th.pc = "set_store" ->
         \* m.data.Store(key, entry)
         [m |-> [mem EXCEPT !.data = MapStore(@, th.key, th.entry)],
          g |-> [unlink(gs, {th.key}) EXCEPT ![i] = [th EXCEPT !.pc = "set_add"]]]
    [] th.pc = "set_add" ->
         \* m.updateSize(entry.Size); return nil
         [m |-> updateSize(mem, th.entry.Size),
          g |-> [gs EXCEPT ![i] = returnCall(th, NilErr)]]
    [] OTHER -> [m |-> mem, g |-> gs]

\* Memory.Get, one statement at a time
getStep(mem, gs, i, t) ==
  LET th == gs[i] IN
  CASE th.pc = "idle" ->
         \* the tests of m.closed and key, m.data.Load(key)
         IF mem.closed
         THEN [m |-> mem, g |-> [gs EXCEPT ![i] = returnCall(th, ErrBackendClosed)]]
         ELSE IF th.key = EmptyString
         THEN [m |-> mem, g |-> [gs EXCEPT ![i] = returnCall(th, ErrInvalidKey)]]
         ELSE IF th.key \notin DOMAIN mem.data
         THEN [m |-> [mem EXCEPT !.stats = RecordMiss(@)],
               g |-> [gs EXCEPT ![i] = returnCall(th, ErrNotFound)]]
         ELSE [m |-> mem,
               g |-> [gs EXCEPT ![i] = [th EXCEPT !.pc = "get_check",
                                          !.entry = mem.data[th.key]]]]
    [] th.pc = "get_check" ->
         \* entry.IsExpired(); on the expired path RecordMiss
         IF IsExpired(th.entry, t)
         THEN [m |-> [mem EXCEPT !.stats = RecordMiss(@)],
               g |-> [gs EXCEPT ![i] = [th EXCEPT !.pc = "get_delete"]]]
         ELSE [m |-> mem, g |-> [gs EXCEPT ![i] = [th EXCEPT !.pc = "get_read"]]]
    [] th.pc = "get_delete" ->
         \* m.data.Delete(key): whatever is stored under the key now
         [m |-> [mem EXCEPT !.data = MapDelete(@, th.key)],
          g |-> [unlink(gs, {th.key}) EXCEPT ![i] = [th EXCEPT !.pc = "get_size"]]]
    [] th.pc = "get_size" ->
         \* m.updateSize(-entry.Size); RecordEviction; return ErrExpired
         [m |-> [updateSize(mem, -th.entry.Size) EXCEPT !.stats = RecordEviction(@)],
          g |-> [gs EXCEPT ![i] = returnCall(th, ErrExpired)]]
    [] th.pc = "get_read" ->
         \* entry.Hits++ reads the field of the loaded *Entry ...
         [m |-> mem,
          g |-> [gs EXCEPT ![i] = [th EXCEPT !.pc = "get_write",
                   !.hits = IF th.stale THEN th.entry.Hits ELSE mem.data[th.key].Hits]]]
    [] th.pc = "get_write" ->
         \* ... and writes it back, then entry.UpdatedAt = time.Now(), RecordHit
         LET touched == [(IF th.stale THEN th.entry ELSE mem.data[th.key]) EXCEPT
                           !.Hits = th.hits + 1, !.UpdatedAt = t]
             m1 == IF th.stale THEN mem ELSE [mem EXCEPT !.data[th.key] = touched]
         IN [m |-> [m1 EXCEPT !.stats = RecordHit(@)],
             g |-> [gs EXCEPT ![i] = returnCall(th, NilErr)]]
    [] OTHER -> [m |-> mem, g |-> gs]

\* --------------------------------- writers on disjoint keys beside readers
\* testBackendConcurrency: each writer sets its own key MaxCalls times, each
\* reader gets one of the keys MaxCalls times, on an engine without limits
MaxCalls == 2
ConcurrentConfig ==
  [MaxMemory |-> 0, MaxEntries |-> 0, CleanupInterval |-> 0,
   EvictionPolicy |-> EvictionLRU]
WriterKeys == <<<<"a">>, <<"b">>>>
ConcurrentValues == {[isNil |-> FALSE, bytes |-> b] : b \in {<<>>, <<7>>}}
ConcurrentOrder == <<<<"a">>, <<"b">>>>
Writers == DOMAIN WriterKeys
Readers == {Len(WriterKeys) + 1}

InitConcurrent ==
  /\ m = NewMemory(ConcurrentConfig)
  /\ loop = "none"
  /\ now = 1
  /\ inserted = <<>>
  /\ f = NilFile
  /\ disk = EmptyDisk
  /\ se = NilSync
  /\ fed = NoEvents
  /\ \E key \in {WriterKeys[w] : w \in Writers} :
       g = [i \in Writers \cup Readers |->
              IF i \in Writers THEN Goroutine("set", WriterKeys[i], MaxCalls)
              ELSE Goroutine("get", key, MaxCalls)]

\* a goroutine has calls left or is inside one
Active(i) == g[i].left > 0

SetStep(i, value) ==
  /\ i \in DOMAIN g
  /\ g[i].op = "set"
  /\ Active(i)
  /\ \E r \in {setStep(m, g, i, value, 0, now, ConcurrentOrder)} :
       m' = r.m /\ g' = r.g
  /\ UNCHANGED <<now, loop, inserted, f, disk, se, fed>>

GetStep(i) ==
  /\ i \in DOMAIN g
  /\ g[i].op = "get"
  /\ Active(i)
  /\ \E r \in {getStep(m, g, i, now)} : m' = r.m /\ g' = r.g
  /\ UNCHANGED <<now, loop, inserted, f, disk, se, fed>>

NextConcurrent ==
  \/ \E i \in Writers, value \in ConcurrentValues : SetStep(i, value)
  \/ \E i \in Readers : GetStep(i)

SpecConcurrent == InitConcurrent /\ [][NextConcurrent]_vars

\* every goroutine has returned from its last call
C21_Completed == g # NoGoroutines /\ \A i \in DOMAIN g : g[i].left = 0
C21_KeysWritten == {g[i].key : i \in {w \in Writers : g[w].done > 0}}
\* C21: writers that set pairwise disjoint keys beside readers all succeed, and
\* once every call has returned the entry count is the number of distinct keys
\* written.
C21_ConcurrentWriters ==
  /\ g # NoGoroutines => \A i \in Writers : g[i].failed = 0
  /\ C21_Completed =>
       /\ Stats(m).stats.Entries = Cardinality(C21_KeysWritten)
       /\ DOMAIN m.data = C21_KeysWritten


\* the cleanup goroutine takes a tick and sweeps
C22_SweepStep == loop = "running" /\ m.tickerC = 1 /\ m'.tickerC = 0
\* the auto-save goroutine starts a Save or writes in one
C22_AutoSaveStep ==
  /\ f.alive /\ f'.alive
  /\ f'.auto # f.auto \/ (f.auto.pc # "idle" /\ disk' # disk)
\* Close has returned on the cache engine
C22_MemoryClosed == m.closed
\* Close has returned on the File backend
C22_FileClosed == f.alive /\ f.closed /\ m.closed /\ f.call = "idle"
\* C22: once Close has returned the background goroutine of the instance takes
\* no further step: the cleanup loop runs no sweep after Memory.Close, the
\* auto-save loop writes no snapshot after File.Close.
C22_NoStepAfterClose ==
  [][/\ C22_MemoryClosed => ~C22_SweepStep
     /\ C22_FileClosed => ~C22_AutoSaveStep]_vars
\* the half of C22 about the File backend alone
C22_FileHalf == [][C22_FileClosed => ~C22_AutoSaveStep]_vars


\* the entry under k has an expiry and the clock has reached it
C23_Due(k) == m.data[k].ExpiresAt # ZeroTime /\ now >= m.data[k].ExpiresAt
\* Get, Keys, the sweep and Load treat the entry under k as expired
C23_TreatedExpired(k) ==
  /\ Get(m, k, now).err = ErrExpired
  /\ \A order \in RangeOrders :
       /\ \A i \in DOMAIN Keys(m, <<"*">>, now, order).keys :
            Keys(m, <<"*">>, now, order).keys[i] # k
       /\ k \notin DOMAIN cleanupExpired(m, now, order).data
       /\ k \notin DOMAIN loadEntries(NewMemory(m.config), <<m.data[k]>>, now, order).data
\* C23: an entry with an expiry is expired for Get, Keys, the sweep and Load at
\* every time t >= ExpiresAt, the instant t = ExpiresAt included.
C23_ExpiredFromInstant ==
  ~m.closed => \A k \in DOMAIN m.data : C23_Due(k) => C23_TreatedExpired(k)
\* the same with the instant itself left out
C23_ExpiredAfterInstant ==
  ~m.closed => \A k \in DOMAIN m.data :
    (C23_Due(k) /\ now # m.data[k].ExpiresAt) => C23_TreatedExpired(k)


\* C24: a Set on a stored key replaces the value and keeps the entry's Hits:
\* the next Get returns the new value with Hits one more than before the Set.
C24_OverwriteKeepsHits ==
  ~m.closed =>
    \A k \in DOMAIN m.data, b \in ByteSlices, ttl \in TTLArgs, order \in RangeOrders :
      LET s == Set(m, k, [isNil |-> FALSE, bytes |-> b], ttl, now, order)
          r == Get(s.m, k, now)
      IN s.err = NilErr =>
           /\ r.err = NilErr
           /\ r.entry.Value = b
           /\ r.entry.Hits = m.data[k].Hits + 1


\* replacing the value under the stored key k by b keeps the cache within its
\* bounds: the number of entries stays, the total size changes by the delta
C25_Fits(k, b) ==
  /\ m.config.MaxEntries = 0 \/ StoredCount <= m.config.MaxEntries
  /\ m.config.MaxMemory = 0
       \/ StoredBytes - Len(m.data[k].Value) + Len(b) <= m.config.MaxMemory
\* C25: a Set that overwrites a stored key evicts nothing when the state after
\* it is within the bounds, the old value's size being subtracted first; so an
\* overwrite in a cache that holds exactly MaxEntries entries evicts nothing.
C25_OverwriteEvictsNothing ==
  ~m.closed =>
    \A k \in DOMAIN m.data, b \in ByteSlices, ttl \in TTLArgs, order \in RangeOrders :
      C25_Fits(k, b) =>
        LET s == Set(m, k, [isNil |-> FALSE, bytes |-> b], ttl, now, order) IN
        /\ s.err = NilErr
        /\ s.m.stats.evictions = m.stats.evictions
        /\ DOMAIN s.m.data = DOMAIN m.data
        /\ s.m.data[k].Value = b
\* the same on caches that hold fewer than MaxEntries entries and whose total
\* size with the new value added to the old one is within MaxMemory
C25_BelowBounds ==
  ~m.closed =>
    \A k \in DOMAIN m.data, b \in ByteSlices, ttl \in TTLArgs, order \in RangeOrders :
      (/\ m.config.MaxEntries = 0 \/ m.entryCount < m.config.MaxEntries
       /\ m.config.MaxMemory = 0 \/ m.totalSize + Len(b) <= m.config.MaxMemory) =>
        LET s == Set(m, k, [isNil |-> FALSE, bytes |-> b], ttl, now, order) IN
        /\ s.err = NilErr
        /\ s.m.stats.evictions = m.stats.evictions
        /\ DOMAIN s.m.data = DOMAIN m.data
        /\ s.m.data[k].Value = b


\* a value longer than the memory limit of the bounded configuration
C26_LongValue == [isNil |-> FALSE, bytes |-> <<7, 7, 7, 7>>]
\* the value cannot fit whatever is evicted
C26_CannotFit == m.config.MaxMemory > 0 /\ Len(C26_LongValue.bytes) > m.config.MaxMemory
\* C26: a Set that cannot be made to fit fails with ErrMemoryLimit, does not
\* store the new entry, and leaves the cache as it was: no stored entry is
\* lost and the gauges still equal what is stored.
C26_FailedSetKeepsState ==
  (~m.closed /\ C26_CannotFit) =>
    \A k \in StoreKeys, order \in RangeOrders :
      LET s == Set(m, k, C26_LongValue, 0, now, order) IN
      /\ s.err = ErrMemoryLimit
      /\ \A j \in DOMAIN s.m.data : s.m.data[j].Value # C26_LongValue.bytes
      /\ DOMAIN m.data \subseteq DOMAIN s.m.data
      /\ s.m.entryCount - Cardinality(DOMAIN s.m.data) = m.entryCount - StoredCount
      /\ s.m.totalSize = SumOfLengths(s.m.data, DOMAIN s.m.data)
\* the part of C26 about the failure itself
C26_FailsUnstored ==
  (~m.closed /\ C26_CannotFit) =>
    \A k \in StoreKeys, order \in RangeOrders :
      LET s == Set(m, k, C26_LongValue, 0, now, order) IN
      /\ s.err = ErrMemoryLimit
      /\ \A j \in DOMAIN s.m.data : s.m.data[j].Value # C26_LongValue.bytes
      /\ s.m.totalSize = SumOfLengths(s.m.data, DOMAIN s.m.data)


\* what one run of the sweep does to the state, for the entries in Expired
C27_Removes(Expired, order) ==
  LET swept == cleanupExpired(m, now, order)
      removed == DOMAIN m.data \ DOMAIN swept.data
  IN /\ removed = Expired
     /\ \A k \in DOMAIN swept.data : swept.data[k] = m.data[k]
     /\ swept.entryCount = m.entryCount - Cardinality(removed)
     /\ swept.totalSize = m.totalSize - SumOfLengths(m.data, removed)
     /\ swept.stats.evictions = m.stats.evictions + Cardinality(removed)
C27_Sweep ==
  ~m.closed => \A order \in RangeOrders :
    C27_Removes({k \in DOMAIN m.data : C23_Due(k)}, order)
\* without a cleanup interval there is no cleanup goroutine and no sweep
C27_NoSweepWithoutInterval ==
  m.config.CleanupInterval = 0 =>
    /\ loop = "none" /\ m.cleanupTicker = "nil"
    /\ ~C22_SweepStep /\ m'.tickerC = 0
\* C27: one run of the sweep removes exactly the entries that are expired at
\* that time; the entry count goes down by their number, the total size by
\* their sizes, the eviction counter up by their number; with a cleanup
\* interval of 0 no sweep runs.
C27_SweepExact == [](C27_Sweep) /\ [][C27_NoSweepWithoutInterval]_vars
\* the same for the entries the clock is past, all values non-empty
C27_SweepPastNonEmpty ==
  (~m.closed /\ \A k \in DOMAIN m.data : m.data[k].Value # <<>>) =>
    \A order \in RangeOrders :
      C27_Removes({k \in DOMAIN m.data : IsExpired(m.data[k], now)}, order)
C27_SweepExactScoped == [](C27_SweepPastNonEmpty) /\ [][C27_NoSweepWithoutInterval]_vars


\* C28: between events the per-kind counters of the sync engine sum to the
\* number of events processed, whatever the events were.
C28_KindsSumToProcessed ==
  se.alive =>
    se.stats.AddEvents + se.stats.UpdateEvents + se.stats.DeleteEvents
      = se.stats.EventsProcessed
\* the same while only single-record add, update and delete events are fed
C28_PlainKindsSum == (se.alive /\ fed.plain) => C28_KindsSumToProcessed


\* loop i fails to subscribe
C29_SubscribeFails(i) ==
  /\ se.alive /\ ~se.panicked
  /\ i \in DOMAIN se.loops
  /\ se.loops[i].pc = "subscribe" /\ se'.loops[i].pc = "exited"
\* the failure is counted, recorded and handed to the error handler
C29_Reported ==
  /\ se'.stats.SyncErrors = se.stats.SyncErrors + 1
  /\ se'.stats.LastError = ErrSubscribe
  /\ se'.handled = se.handled + (IF se.config.ErrorHandler THEN 1 ELSE 0)
\* the engine is Stopped: a following Start is accepted
C29_Stopped ==
  /\ ~se'.running
  /\ se'.call = "idle" => startBegin(se').err = NilErr
C29_Step == \A i \in DOMAIN se.loops : C29_SubscribeFails(i) => C29_Reported /\ C29_Stopped
\* C29: when the subscription cannot be established the failure is reported
\* (error counter, last error, error handler) and the engine ends up Stopped,
\* so that a following Start is accepted.
C29_SubscribeFailureStops == [][C29_Step]_vars
\* the part of C29 about the report
C29_SubscribeFailureReported ==
  [][\A i \in DOMAIN se.loops : C29_SubscribeFails(i) => C29_Reported]_vars


\* Start is about to run the full sync
C30_AtFullSync == se.alive /\ se.call = "start_sync" /\ se.config.SyncOnStart /\ ~m.closed
C30_Failing(bridge) == {type \in DOMAIN bridge : bridge[type].err # NilErr}
\* every resource of every type that lists is in the cache afterwards
C30_OthersWritten(bridge, mem) ==
  \A type \in DOMAIN bridge \ C30_Failing(bridge) :
    \A i \in DOMAIN bridge[type].ids : TypeKey(type, bridge[type].ids[i]) \in DOMAIN mem.data
\* a failure is handed to handleError, and the loop is launched all the same
C30_ReportedAndStarted(bridge, s) ==
  /\ C30_Failing(bridge) # {} =>
       /\ s.stats.SyncErrors > se.stats.SyncErrors
       /\ s.stats.LastError = ErrInitialSync
       /\ se.config.ErrorHandler => s.handled > se.handled
  /\ C30_Failing(bridge) = {} => s.stats = se.stats /\ s.handled = se.handled
  /\ se.config.EnableAutoSync =>
       /\ Len(s.loops) = Len(se.loops) + 1
       /\ s.loops[Len(s.loops)].pc = "subscribe"
  /\ s.call = "idle"
\* C30: in the full sync of Start a failure of one resource type does not
\* block the others: every other type is listed and written to the cache, the
\* failure is reported to the error handler, and the loop is started.
C30_FullSyncGoesOn ==
  C30_AtFullSync =>
    \A bridge \in Bridges :
      LET r == startFinish(se, m, bridge, now, SyncOrder) IN
      C30_OthersWritten(bridge, r.m) /\ C30_ReportedAndStarted(bridge, r.s)
\* the part of C30 about the report and the loop
C30_FullSyncReported ==
  C30_AtFullSync =>
    \A bridge \in Bridges :
      C30_ReportedAndStarted(bridge, startFinish(se, m, bridge, now, SyncOrder).s)


\* what Load makes, at time t, of the entry stored under k: it is dropped, or
\* reinserted with the expiry instant the snapshot holds for it
C31_Kept(k, t, fresh) ==
  /\ k \in DOMAIN fresh.data => fresh.data[k].ExpiresAt = m.data[k].ExpiresAt
  /\ t > m.data[k].ExpiresAt => k \notin DOMAIN fresh.data
\* C31: Load never extends a lifetime: an entry with an expiry that Load
\* reinserts keeps the expiry instant of the snapshot, an entry already
\* expired at load time is dropped, and no entry with an expiry comes back
\* without one.
C31_LoadKeepsExpiry ==
  (f.alive /\ ~f.closed) =>
    \A t \in now..MaxTime, saveOrder \in RangeOrders, loadOrder \in RangeOrders :
      \A k \in DOMAIN m.data :
        m.data[k].ExpiresAt # ZeroTime =>
          C31_Kept(k, t, C12_Reloaded(t, saveOrder, loadOrder))
\* the same for every load time but the expiry instant itself
C31_LoadKeepsExpiryOffInstant ==
  (f.alive /\ ~f.closed) =>
    \A t \in now..MaxTime, saveOrder \in RangeOrders, loadOrder \in RangeOrders :
      \A k \in DOMAIN m.data :
        (m.data[k].ExpiresAt # ZeroTime /\ t # m.data[k].ExpiresAt) =>
          C31_Kept(k, t, C12_Reloaded(t, saveOrder, loadOrder))


\* the entries Save records from the engine as it is now, as a reader of the
\* snapshot decodes them
C32_Recorded(saveOrder) ==
  GobDecode(GobEncode(
    saveCollect(m, Keys(m, <<"*">>, now, saveOrder).keys, <<>>, now).entries))
C32_SameFields(rec, held) ==
  /\ rec.Key = held.Key
  /\ rec.Value.bytes = held.Value
  /\ rec.CreatedAt = held.CreatedAt
  /\ rec.UpdatedAt = held.UpdatedAt
  /\ rec.ExpiresAt = held.ExpiresAt
  /\ rec.Hits = held.Hits
  /\ rec.Size = held.Size
\* the fields Save does not touch
C32_SameStableFields(rec, held) ==
  /\ rec.Key = held.Key
  /\ rec.Value.bytes = held.Value
  /\ rec.CreatedAt = held.CreatedAt
  /\ rec.ExpiresAt = held.ExpiresAt
  /\ rec.TTL = held.TTL
  /\ rec.Size = held.Size
\* C32: every entry Save records has the fields the cache held for it when
\* Save began (key, value, CreatedAt, UpdatedAt, ExpiresAt, Hits, Size), and
\* after Load into a fresh instance the entry has the same CreatedAt,
\* ExpiresAt and Hits.
C32_FieldsRoundTrip ==
  (f.alive /\ ~f.closed) =>
    \A saveOrder \in RangeOrders, loadOrder \in RangeOrders :
      LET recorded == C32_Recorded(saveOrder)
          fresh == C12_Reloaded(now, saveOrder, loadOrder)
      IN /\ \A i \in DOMAIN recorded :
              C32_SameFields(recorded[i], m.data[recorded[i].Key])
         /\ \A k \in DOMAIN fresh.data :
              /\ fresh.data[k].CreatedAt = m.data[k].CreatedAt
              /\ fresh.data[k].ExpiresAt = m.data[k].ExpiresAt
              /\ fresh.data[k].Hits = m.data[k].Hits
\* the part of C32 about the fields Save leaves alone
C32_StableFieldsRecorded ==
  (f.alive /\ ~f.closed) =>
    \A saveOrder \in RangeOrders :
      LET recorded == C32_Recorded(saveOrder) IN
      /\ {recorded[i].Key : i \in DOMAIN recorded}
           = {k \in DOMAIN m.data : ~IsExpired(m.data[k], now)}
      /\ \A i \in DOMAIN recorded :
           C32_SameStableFields(recorded[i], m.data[recorded[i].Key])


\* NewFile may be called: there is no instance, or the last one is closed
C33_MayConstruct ==
  IF f.alive THEN f.closed /\ f.call = "idle" /\ m.closed ELSE TRUE
C33_Unparsable == disk.snapshot.exists /\ ~disk.snapshot.complete
\* C33: NewFile with LoadOnStart and no snapshot file returns an empty cache
\* and no error; with a snapshot file that cannot be decoded it returns an
\* error instead of an instance that starts empty.
C33_LoadOnStart ==
  C33_MayConstruct =>
    \A autoSave \in FileAutoSave, order \in FileOrders :
      LET n == NewFile(autoSave, TRUE, disk, now, order) IN
      /\ ~disk.snapshot.exists =>
           n.err = NilErr /\ n.f.alive /\ DOMAIN n.m.data = {}
      /\ C33_Unparsable => n.err # NilErr
\* the part of C33 about the missing file, and what NewFile does with a file
\* that cannot be decoded
C33_MissingFileStartsEmpty ==
  C33_MayConstruct =>
    \A autoSave \in FileAutoSave, order \in FileOrders :
      LET n == NewFile(autoSave, TRUE, disk, now, order) IN
      /\ ~disk.snapshot.exists =>
           n.err = NilErr /\ n.f.alive /\ DOMAIN n.m.data = {}
      /\ C33_Unparsable =>
           /\ n.err = NilErr /\ n.f.alive /\ DOMAIN n.m.data = {}
           /\ Load(n.f, n.m, disk, now, order).err = ErrDecode
C33_UnparsableAtConstruction == C33_MayConstruct /\ C33_Unparsable


\* ------------------------------------ operations that race on the same keys
\* Memory.Delete, one statement at a time
deleteStep(mem, gs, i) ==
  LET th == gs[i] IN
  CASE th.pc = "idle" ->
         \* the test of m.closed, m.data.LoadAndDelete(key)
         IF mem.closed
         THEN [m |-> mem, g |-> [gs EXCEPT ![i] = returnCall(th, ErrBackendClosed)]]
         ELSE IF th.key \in DOMAIN mem.data
         THEN [m |-> [mem EXCEPT !.data = MapDelete(@, th.key)],
               g |-> [unlink(gs, {th.key}) EXCEPT
                        ![i] = [th EXCEPT !.pc = "delete_size",
                                          !.entry = mem.data[th.key]]]]
         ELSE [m |-> mem, g |-> [gs EXCEPT ![i] = returnCall(th, NilErr)]]
    [] th.pc = "delete_size" ->
         \* m.updateSize(-entry.Size); return nil
         [m |-> updateSize(mem, -th.entry.Size),
          g |-> [gs EXCEPT ![i] = returnCall(th, NilErr)]]
    [] OTHER -> [m |-> mem, g |-> gs]

\* Memory.Clear, one statement at a time (the Range that deletes every key it
\* visits is one step)
clearStep(mem, gs, i) ==
  LET th == gs[i] IN
  CASE th.pc = "idle" ->
         IF mem.closed
         THEN [m |-> mem, g |-> [gs EXCEPT ![i] = returnCall(th, ErrBackendClosed)]]
         ELSE [m |-> [mem EXCEPT !.data = EmptyMap],
               g |-> [unlink(gs, DOMAIN mem.data) EXCEPT
                        ![i] = [th EXCEPT !.pc = "clear_zero"]]]
    [] th.pc = "clear_zero" ->
         \* under m.mu: m.totalSize = 0, m.entryCount = 0
         [m |-> [mem EXCEPT !.totalSize = 0, !.entryCount = 0],
          g |-> [gs EXCEPT ![i] = [th EXCEPT !.pc = "clear_stats"]]]
    [] th.pc = "clear_stats" ->
         \* m.stats.SetSize(0); m.stats.SetEntries(0); return nil
         [m |-> [mem EXCEPT !.stats = SetEntries(SetSize(@, 0), 0)],
          g |-> [gs EXCEPT ![i] = returnCall(th, NilErr)]]
    [] OTHER -> [m |-> mem, g |-> gs]

\* cleanupExpired, one statement at a time (the Range that collects the
\* expired keys is one step); todo is its local toDelete
sweepStep(mem, gs, i, t, order) ==
  LET th == gs[i]
      Expired(k) == IsExpired(mem.data[k], t)
      next(rest) == IF rest = <<>> THEN returnCall([th EXCEPT !.todo = <<>>], NilErr)
                    ELSE [th EXCEPT !.pc = "sweep_delete", !.todo = rest,
                                    !.entry = NilEntry]
  IN
  CASE th.pc = "idle" ->
         [m |-> mem,
          g |-> [gs EXCEPT ![i] = next(SelectSeq(Range(mem.data, order), Expired))]]
    [] th.pc = "sweep_delete" ->
         \* m.data.LoadAndDelete(key): whatever is stored under the key now
         IF Head(th.todo) \in DOMAIN mem.data
         THEN [m |-> [mem EXCEPT !.data = MapDelete(@, Head(th.todo))],
               g |-> [unlink(gs, {Head(th.todo)}) EXCEPT
                        ![i] = [th EXCEPT !.pc = "sweep_size",
                                          !.entry = mem.data[Head(th.todo)]]]]
         ELSE [m |-> mem, g |-> [gs EXCEPT ![i] = next(Tail(th.todo))]]
    [] th.pc = "sweep_size" ->
         \* m.updateSize(-entry.Size); m.stats.RecordEviction()
         [m |-> [updateSize(mem, -th.entry.Size) EXCEPT !.stats = RecordEviction(@)],
          g |-> [gs EXCEPT ![i] = next(Tail(th.todo))]]
    [] OTHER -> [m |-> mem, g |-> gs]

\* Two goroutines, one call each, on an engine that is empty or holds "a"
\* with a TTL of one tick, without limits or with MaxEntries = 1.  raced notes
\* that the goroutine took a step while the other one was inside its call,
\* new that its key was not stored when the goroutines were started.
RaceConfigs ==
  {[MaxMemory |-> 0, MaxEntries |-> n, CleanupInterval |-> 0,
    EvictionPolicy |-> EvictionLRU] : n \in {0, 1}}
RaceCalls ==
  {<<"set", <<"a">>>>, <<"set", <<"b">>>>, <<"get", <<"a">>>>,
   <<"delete", <<"a">>>>, <<"clear", EmptyString>>, <<"sweep", EmptyString>>}
RaceValue == [isNil |-> FALSE, bytes |-> <<7>>]
RaceGoroutine(call, mem) ==
  [op |-> call[1], key |-> call[2], pc |-> "idle", left |-> 1, entry |-> NilEntry,
   old |-> NilEntry, stale |-> FALSE, hits |-> 0, done |-> 0, failed |-> 0,
   todo |-> <<>>, raced |-> FALSE, new |-> call[2] \notin DOMAIN mem.data]
RaceStored(cfg) ==
  Set(NewMemory(cfg), <<"a">>, [isNil |-> FALSE, bytes |-> <<7, 7>>], 1, 1,
      ConcurrentOrder).m

InitRace ==
  /\ \E cfg \in RaceConfigs :
       m \in {NewMemory(cfg), RaceStored(cfg)}
  /\ loop = "none"
  /\ now = 1
  /\ inserted = <<>>
  /\ f = NilFile
  /\ disk = EmptyDisk
  /\ se = NilSync
  /\ fed = NoEvents
  /\ \E c1 \in RaceCalls, c2 \in RaceCalls :
       g = <<RaceGoroutine(c1, m), RaceGoroutine(c2, m)>>

raceStep(mem, gs, i, t) ==
  CASE gs[i].op = "set" -> setStep(mem, gs, i, RaceValue, 0, t, ConcurrentOrder)
    [] gs[i].op = "get" -> getStep(mem, gs, i, t)
    [] gs[i].op = "delete" -> deleteStep(mem, gs, i)
    [] gs[i].op = "clear" -> clearStep(mem, gs, i)
    [] OTHER -> sweepStep(mem, gs, i, t, ConcurrentOrder)

RaceStep(i, op) ==
  /\ i \in DOMAIN g
  /\ g[i].op = op
  /\ Active(i)
  /\ \E r \in {raceStep(m, g, i, now)} :
       /\ m' = r.m
       /\ g' = [r.g EXCEPT ![i].raced =
                  @ \/ \E j \in DOMAIN g \ {i} : g[j].pc # "idle"]
  /\ UNCHANGED <<now, loop, inserted, f, disk, se, fed>>

RaceTick ==
  /\ now < MaxTime
  /\ now' = now + 1
  /\ UNCHANGED <<m, loop, inserted, f, disk, se, fed, g>>

NextRace ==
  \/ \E i \in 1..2 : RaceStep(i, "set")
  \/ \E i \in 1..2 : RaceStep(i, "get")
  \/ \E i \in 1..2 : RaceStep(i, "delete")
  \/ \E i \in 1..2 : RaceStep(i, "clear")
  \/ \E i \in 1..2 : RaceStep(i, "sweep")
  \/ RaceTick

SpecRace == InitRace /\ [][NextRace]_vars

C34_Serial == \A i \in DOMAIN g : ~g[i].raced
C34_Gauges ==
  /\ Stats(m).stats.Entries = StoredCount
  /\ Stats(m).stats.Size = StoredBytes
\* C34: once every concurrent Set, Get, Delete, Clear, eviction and sweep has
\* completed, entry_count and total_size_bytes are the true count and summed
\* size of the stored entries, under every interleaving.
C34_GaugesAfterRaces == C21_Completed => C34_Gauges
\* the same for the schedules in which no call overlaps another
C34_GaugesAfterSerial == (C21_Completed /\ C34_Serial) => C34_Gauges


\* both goroutines are Sets, of distinct keys that were not stored, on an
\* engine with an entry limit
C35_SetsOfNewKeys ==
  /\ g # NoGoroutines
  /\ \A i \in DOMAIN g : g[i].op = "set" /\ g[i].new
  /\ \A i, j \in DOMAIN g : i # j => g[i].key # g[j].key
  /\ m.config.MaxEntries > 0
\* C35: with MaxEntries = N, once concurrent Sets of distinct new keys have
\* completed the number of stored entries is at most N, under every
\* interleaving.
C35_WithinLimitAfterSets ==
  (C21_Completed /\ C35_SetsOfNewKeys) => StoredCount <= m.config.MaxEntries
\* the same for the schedules in which the Sets do not overlap
C35_WithinLimitAfterSerialSets ==
  (C21_Completed /\ C35_SetsOfNewKeys /\ C34_Serial)
    => /\ StoredCount <= m.config.MaxEntries
       /\ \A i \in DOMAIN g : g[i].done = 1

\* a Set of a key has returned nil beside a Get of that key or a sweep
C37_SetBesideExpiry(i) ==
  /\ g[i].op = "set" /\ g[i].done = 1
  /\ \E j \in DOMAIN g \ {i} :
       \/ g[j].op = "get" /\ g[j].key = g[i].key
       \/ g[j].op = "sweep"
C37_FreshStored(i) ==
  /\ g[i].key \in DOMAIN m.data
  /\ m.data[g[i].key].ExpiresAt = ZeroTime
  /\ m.data[g[i].key].Value = RaceValue.bytes
\* C37: lazy expiry on Get and the sweep remove expired entries only: when a
\* Set that stores a fresh value (one that never expires) runs beside a Get of
\* the key or a sweep, the fresh entry is stored once both have finished,
\* under every interleaving.
C37_FreshEntrySurvives ==
  C21_Completed =>
    \A i \in DOMAIN g : C37_SetBesideExpiry(i) => C37_FreshStored(i)
\* the same for the schedules in which the calls do not overlap
C37_FreshEntrySurvivesSerial ==
  (C21_Completed /\ C34_Serial) =>
    \A i \in DOMAIN g : C37_SetBesideExpiry(i) => C37_FreshStored(i)


\* a loop that has not returned from syncLoop
C38_Active(i) == se.loops[i].pc # "exited"
\* the engine is Running again after a Stop, its second loop launched
C38_Restarted == se.alive /\ se.running /\ se.call = "idle" /\ Len(se.loops) = 2
C38_State ==
  se.alive =>
    /\ ~se.panicked
    /\ C38_Restarted => se.ctx = "live"
C38_StopWaits ==
  (se.alive /\ se.call = "stop_wait" /\ se'.call = "idle" /\ Len(se.loops) = 2)
    => ~(\E i \in DOMAIN se'.loops : se'.loops[i].pc # "exited")
\* C38: in every sequence of Start and Stop calls s.done is closed at most
\* once per launched loop and never twice (no panic); after Start, Stop, Start
\* the engine is Running with a second loop whose context is not cancelled,
\* and a following Stop returns only when that second loop has exited.
C38_StartStopStart == [](C38_State) /\ [][C38_StopWaits]_vars
\* the first loop of an engine closes s.done once, without a panic
C38_FirstLoopClosesOnce ==
  (se.alive /\ Len(se.loops) <= 1) =>
    /\ ~se.panicked
    /\ (se.done = "closed") => (Len(se.loops) = 1 /\ ~C38_Active(1))


\* -------------------------------------------- two callers of one SyncEngine
\* Start and Stop called from two goroutines: each caller has its own
\* position inside the call (what s.call is for a single caller), and the
\* statements outside s.mu interleave
Caller == [call |-> "idle", left |-> MaxCalls]
\* the engine as the caller i sees it, and the step of a call by that caller
asCaller(s, gs, i) == [s EXCEPT !.call = gs[i].call]
callerStep(gs, i, s) ==
  [gs EXCEPT ![i] = [call |-> s.call,
                     left |-> IF gs[i].call = "idle" THEN @.left - 1 ELSE @.left]]

InitCallers ==
  /\ m = NewMemory(SyncMemoryConfig)
  /\ loop = "none"
  /\ now = 1
  /\ inserted = <<>>
  /\ f = NilFile
  /\ disk = EmptyDisk
  /\ \E config \in SyncConfigs : se = NewSyncEngine(config)
  /\ fed = NoEvents
  /\ g = <<Caller, Caller>>

CallerStart(i) ==
  /\ SyncLive
  /\ g[i].call = "idle" /\ g[i].left > 0
  /\ Len(se.loops) < MaxLoops
  /\ \E r \in {startBegin(asCaller(se, g, i)).s} :
       /\ se' = [r EXCEPT !.call = "idle"]
       /\ g' = callerStep(g, i, r)
  /\ UNCHANGED <<m, now, loop, inserted, f, disk, fed>>

CallerStartFinish(i, bridge) ==
  /\ SyncLive
  /\ g[i].call = "start_sync"
  /\ \E r \in {startFinish(asCaller(se, g, i), m, bridge, now, SyncOrder)} :
       /\ se' = [r.s EXCEPT !.call = "idle"]
       /\ g' = callerStep(g, i, r.s)
       /\ m' = r.m
  /\ UNCHANGED <<now, loop, inserted, f, disk, fed>>

CallerStop(i) ==
  /\ SyncLive
  /\ g[i].call = "idle" /\ g[i].left > 0
  /\ \E r \in {stopBegin(asCaller(se, g, i)).s} :
       /\ se' = [r EXCEPT !.call = "idle"]
       /\ g' = callerStep(g, i, r)
  /\ UNCHANGED <<m, now, loop, inserted, f, disk, fed>>

CallerStopCancel(i) ==
  /\ SyncLive
  /\ g[i].call = "stop_cancel"
  /\ \E r \in {stopCancel(asCaller(se, g, i))} :
       /\ se' = [r EXCEPT !.call = "idle"]
       /\ g' = callerStep(g, i, r)
  /\ UNCHANGED <<m, now, loop, inserted, f, disk, fed>>

CallerStopWait(i) ==
  /\ SyncLive
  /\ g[i].call = "stop_wait"
  /\ se.done = "closed"
  /\ \E r \in {stopWait(asCaller(se, g, i))} :
       /\ se' = [r EXCEPT !.call = "idle"]
       /\ g' = callerStep(g, i, r)
  /\ UNCHANGED <<m, now, loop, inserted, f, disk, fed>>

NextCallers ==
  \/ \E i \in 1..2 : CallerStart(i)
  \/ \E i \in 1..2, bridge \in Bridges : CallerStartFinish(i, bridge)
  \/ \E i \in 1..2 : CallerStop(i)
  \/ \E i \in 1..2 : CallerStopCancel(i)
  \/ \E i \in 1..2 : CallerStopWait(i)
  \/ \E i \in 1..MaxLoops, ok \in BOOLEAN : LoopSubscribe(i, ok)
  \/ \E i \in 1..MaxLoops : LoopFeedClosed(i)
  \/ \E i \in 1..MaxLoops : LoopCancelled(i)
  \/ \E i \in 1..MaxLoops : ProducerClose(i)

SpecCallers == InitCallers /\ [][NextCallers]_vars

C36_ActiveLoops == {i \in DOMAIN se.loops : se.loops[i].pc # "exited"}
\* C36: at every moment at most one syncLoop of an engine is active, under
\* every interleaving of concurrent Start and Stop calls.
C36_OneLoop == se.alive => Cardinality(C36_ActiveLoops) <= 1
\* until a Stop has found the engine Running, one loop at most
C36_NoStopYet ==
  /\ se.ctx = "live"
  /\ \A i \in DOMAIN g : g[i].call # "stop_cancel"
C36_OneLoopUntilStop ==
  (se.alive /\ C36_NoStopYet) => Cardinality(C36_ActiveLoops) <= 1


\* --------------------------------------------------- a Set beside the Close
\* One goroutine closes the File backend while another one calls Set: File.Set
\* runs under f.mu.RLock, which Close's final Save holds as a reader too, so a
\* Set can run at every point of Close up to f.closed = true.  The setter
\* notes the keys whose Set returned nil, apart for the Sets that returned
\* before Close was called and those that ran beside it.
Setter == [before |-> {}, during |-> {}, left |-> MaxCalls]
setterStep(th, ff, key, err) ==
  [before |-> IF err = NilErr /\ ff.call = "idle" THEN th.before \cup {key}
              ELSE th.before,
   during |-> IF err = NilErr /\ ff.call # "idle" THEN th.during \cup {key}
              ELSE th.during,
   left |-> th.left - 1]

InitCloseRace ==
  /\ \E order \in RangeOrders :
       /\ f = NewFile(FALSE, TRUE, EmptyDisk, 1, order).f
       /\ m = NewFile(FALSE, TRUE, EmptyDisk, 1, order).m
  /\ loop = "none"
  /\ now = 1
  /\ inserted = <<>>
  /\ disk = EmptyDisk
  /\ se = NilSync
  /\ fed = NoEvents
  /\ g = <<Setter>>

SetBesideClose(key, value, order) ==
  /\ f.alive
  /\ g[1].left > 0
  /\ \E r \in {FileSet(f, m, key, value, 0, now, order)} :
       /\ m' = r.m
       /\ g' = <<setterStep(g[1], f, key, r.err)>>
  /\ UNCHANGED <<now, loop, inserted, f, disk, se, fed>>

NextCloseRace ==
  \/ Tick
  \/ \E key \in StoreKeys, b \in ByteSlices, order \in RangeOrders :
       SetBesideClose(key, [isNil |-> FALSE, bytes |-> b], order)
  \/ CallFileClose
  \/ CloseFinalSave(TRUE)
  \/ \E order \in RangeOrders : SaveEncodeStep("save", order, TRUE)
  \/ SaveSyncStep("save", TRUE)
  \/ SaveCloseFileStep("save", TRUE)
  \/ SaveRenameStep("save", TRUE)
  \/ CloseMarkStep
  \/ CloseMemoryStep

SpecCloseRace == InitCloseRace /\ [][NextCloseRace]_vars

\* Close has returned nil
C39_Closed == f.alive /\ f.closed /\ f.call = "idle" /\ f.closeErr = NilErr
C39_SnapshotKeys ==
  {GobDecode(disk.snapshot.entries)[i].Key : i \in DOMAIN disk.snapshot.entries}
\* C39: every Set that returned nil is in the snapshot Close's final Save
\* wrote (the entries never expire and nothing deletes or evicts them), under
\* every interleaving of the Set with Close.
C39_SetIsInFinalSnapshot ==
  C39_Closed =>
    /\ disk.snapshot.exists /\ disk.snapshot.complete
    /\ (g[1].before \cup g[1].during) \subseteq C39_SnapshotKeys
\* the Sets that returned before Close was called are in the final snapshot
C39_EarlierSetIsInFinalSnapshot ==
  C39_Closed =>
    /\ disk.snapshot.exists /\ disk.snapshot.complete
    /\ g[1].before \subseteq C39_SnapshotKeys


\* the other of the two Saves that can be in progress
C40_Other(w) == CHOOSE o \in SaveSlots : o # w
\* a Save is between os.Create and its return
C40_InSave(w) == f.alive /\ f[w].pc # "idle"
C40_Overlap == f.alive /\ \A w \in SaveSlots : f[w].pc # "idle"
C40_Visible == disk.snapshot.exists => disk.snapshot.complete
\* a step of the Save w leaves the file the other Save has open where it is
\* linked and as it is
C40_Step ==
  \A w \in SaveSlots :
    (/\ C40_InSave(C40_Other(w))
     /\ f'.alive
     /\ f'[w] # f[w]
     /\ f'[C40_Other(w)].pc = f[C40_Other(w)].pc)
      => /\ f'[C40_Other(w)].fd = f[C40_Other(w)].fd
         /\ openFile(disk', f'[C40_Other(w)].fd) = openFile(disk, f[C40_Other(w)].fd)
\* C40: with two Saves in progress at once (auto-save, Save, Close's final
\* Save) the file at the snapshot path is always a complete snapshot, and no
\* step of one Save truncates, removes or renames the temporary file the other
\* one is still writing.
C40_SavesDoNotCollide == [](C40_Visible) /\ [][C40_Step]_vars

====
